---- MODULE Spec2Model ----
(***************************************************************************)
(* Model of semantic-release-github-commit: the prepare step publishes a   *)
(* set of files to a branch of a GitHub repository as one commit through   *)
(* the git data API (blob, tree, commit, ref) and then synchronises the    *)
(* local clone.                                                            *)
(*                                                                         *)
(* Strings are sequences of tokens.  A token is a run of ordinary          *)
(* characters ("owner", "github.com"), a single special character          *)
(* ("$", "&", ":", "/", "@"), or one whole placeholder                     *)
(* ("${nextRelease.version}").  The empty sequence stands for both the     *)
(* empty string and undefined wherever the code only tests truthiness.     *)
(***************************************************************************)
EXTENDS Integers, Sequences, FiniteSets, TLC

\* ------------------------------------------------------------------------
\* Bounds of the model
\* ------------------------------------------------------------------------
MaxFiles == 2
MaxOther == 2
MaxTemplateLen == 2
MaxValueLen == 2
MaxPathLen == 3

\* ------------------------------------------------------------------------
\* Generic helpers
\* ------------------------------------------------------------------------
RECURSIVE Flatten(_)
Flatten(ss) == IF ss = <<>> THEN <<>> ELSE Head(ss) \o Flatten(Tail(ss))

SeqsUpTo(S, n) == UNION {[1..k -> S] : k \in 0..n}

Truthy(s) == s /= <<>>

\* a || b on strings
Or(a, b) == IF Truthy(a) THEN a ELSE b

\* index of the first occurrence of token t in s, 0 when absent
FirstIndex(s, t) ==
  IF \E i \in 1..Len(s) : s[i] = t
  THEN CHOOSE i \in 1..Len(s) : s[i] = t /\ \A j \in 1..(i - 1) : s[j] /= t
  ELSE 0

\* String.prototype.replace(pattern, "") with a string pattern: only the
\* first occurrence is removed, wherever it is
replaceFirst(s, t) ==
  LET i == FirstIndex(s, t)
  IN IF i = 0 THEN s ELSE SubSeq(s, 1, i - 1) \o SubSeq(s, i + 1, Len(s))

\* ------------------------------------------------------------------------
\* Errors
\* ------------------------------------------------------------------------
NoError == [code |-> "none", message |-> <<>>, details |-> <<>>]
createError(code, message, details) ==
  [code |-> code, message |-> message, details |-> details]

\* ------------------------------------------------------------------------
\* utils.ts
\* ------------------------------------------------------------------------
\* result of a function that returns or throws
Ok(v) == [ok |-> TRUE, value |-> v, error |-> NoError]
Throw(e) == [ok |-> FALSE, value |-> <<>>, error |-> e]

\* variant: the configured token comes first
getAuthToken_configFirst(env, githubToken) ==
  LET token == Or(githubToken, Or(env.GH_TOKEN, env.GITHUB_TOKEN))
  IN IF ~Truthy(token)
     THEN Throw(createError("EGHNOAUTH", <<"No GitHub authentication token found">>, <<>>))
     ELSE Ok(token)

getAuthToken(env, githubToken) ==
  LET token == Or(env.GH_TOKEN, Or(env.GITHUB_TOKEN, githubToken))
  IN IF ~Truthy(token)
     THEN Throw(createError("EGHNOAUTH", <<"No GitHub authentication token found">>, <<>>))
     ELSE Ok(token)

BotName == <<"semantic-release-bot">>
BotEmail == <<"semantic-release-bot@martynus.net">>

NoIdentity == [present |-> FALSE, name |-> <<>>, email |-> <<>>]

\* variant: the bot is recognised by its name alone
getGitIdentity_botName(env, type, configName, configEmail) ==
  LET name == Or(configName, IF type = "author" THEN env.GIT_AUTHOR_NAME
                                                  ELSE env.GIT_COMMITTER_NAME)
      email == Or(configEmail, IF type = "author" THEN env.GIT_AUTHOR_EMAIL
                                                    ELSE env.GIT_COMMITTER_EMAIL)
  IN IF name = BotName THEN NoIdentity
     ELSE IF Truthy(name) /\ Truthy(email)
          THEN [present |-> TRUE, name |-> name, email |-> email]
          ELSE NoIdentity

\* variant: the configuration is used only as a complete pair, otherwise
\* the environment pair is
getGitIdentity_pair(env, type, configName, configEmail) ==
  LET fromConfig == Truthy(configName) /\ Truthy(configEmail)
      name == IF fromConfig THEN configName
              ELSE IF type = "author" THEN env.GIT_AUTHOR_NAME
                                      ELSE env.GIT_COMMITTER_NAME
      email == IF fromConfig THEN configEmail
               ELSE IF type = "author" THEN env.GIT_AUTHOR_EMAIL
                                       ELSE env.GIT_COMMITTER_EMAIL
  IN IF name = BotName /\ email = BotEmail THEN NoIdentity
     ELSE IF Truthy(name) /\ Truthy(email)
          THEN [present |-> TRUE, name |-> name, email |-> email]
          ELSE NoIdentity

getGitIdentity(env, type, configName, configEmail) ==
  LET name == Or(configName, IF type = "author" THEN env.GIT_AUTHOR_NAME
                                                  ELSE env.GIT_COMMITTER_NAME)
      email == Or(configEmail, IF type = "author" THEN env.GIT_AUTHOR_EMAIL
                                                    ELSE env.GIT_COMMITTER_EMAIL)
  IN IF name = BotName /\ email = BotEmail THEN NoIdentity
     ELSE IF Truthy(name) /\ Truthy(email)
          THEN [present |-> TRUE, name |-> name, email |-> email]
          ELSE NoIdentity

\* str.split(sep): the segments between occurrences of the token sep
RECURSIVE split(_, _)
split(s, sep) ==
  LET i == FirstIndex(s, sep)
  IN IF i = 0 THEN <<s>>
     ELSE <<SubSeq(s, 1, i - 1)>> \o split(SubSeq(s, i + 1, Len(s)), sep)

\* index of the last occurrence of token t in s, 0 when absent
LastIndex(s, t) ==
  IF \E i \in 1..Len(s) : s[i] = t
  THEN CHOOSE i \in 1..Len(s) : s[i] = t /\ \A j \in (i + 1)..Len(s) : s[j] /= t
  ELSE 0

RECURSIVE dropLeading(_, _)
dropLeading(s, t) ==
  IF s /= <<>> /\ Head(s) = t THEN dropLeading(Tail(s), t) ELSE s

\* new URL(s) of the WHATWG URL standard, on the token alphabet of the
\* model (no query, fragment, port digits or dot segments).  The result is
\* [ok, hostname, pathname]; ok = FALSE is the TypeError the constructor
\* throws.
SpecialSchemes == {<<"https">>, <<"http">>}
UrlFail == [ok |-> FALSE, hostname |-> <<>>, pathname |-> <<>>]
parseAuthority(rest, special) ==
  LET slash == FirstIndex(rest, "/")
      authority == IF slash = 0 THEN rest ELSE SubSeq(rest, 1, slash - 1)
      path == IF slash = 0 THEN <<>> ELSE SubSeq(rest, slash, Len(rest))
      at == LastIndex(authority, "@")
      hostport == SubSeq(authority, at + 1, Len(authority))
      colon == FirstIndex(hostport, ":")
      host == IF colon = 0 THEN hostport ELSE SubSeq(hostport, 1, colon - 1)
      port == IF colon = 0 THEN <<>> ELSE SubSeq(hostport, colon + 1, Len(hostport))
  IN IF port /= <<>> THEN UrlFail               \* a port must be digits
     ELSE IF host = <<>> /\ (special \/ at /= 0) THEN UrlFail
     ELSE [ok |-> TRUE, hostname |-> host,
           pathname |-> IF path = <<>> /\ special THEN <<"/">> ELSE path]
URL(s) ==
  LET colon == FirstIndex(s, ":")
      scheme == SubSeq(s, 1, colon - 1)
      rest == SubSeq(s, colon + 1, Len(s))
  IN IF colon <= 1 THEN UrlFail
     ELSE IF (\E i \in 1..Len(scheme) : scheme[i] \in {"/", "@"}) \/ scheme[1] = ".git"
          THEN UrlFail
     ELSE IF scheme \in SpecialSchemes
          THEN parseAuthority(dropLeading(rest, "/"), TRUE)
     ELSE IF Len(rest) >= 2 /\ rest[1] = "/" /\ rest[2] = "/"
          THEN parseAuthority(SubSeq(rest, 3, Len(rest)), FALSE)
     ELSE [ok |-> TRUE, hostname |-> <<>>, pathname |-> rest]

DefaultHost == <<"github.com">>

\* /^([a-zA-Z0-9@._-]+):([^/]+)\/([^/?#]+)$/
scpMatch(s) ==
  LET colon == FirstIndex(s, ":")
      g1 == SubSeq(s, 1, colon - 1)
      rest == SubSeq(s, colon + 1, Len(s))
      slash == FirstIndex(rest, "/")
      g2 == SubSeq(rest, 1, slash - 1)
      g3 == SubSeq(rest, slash + 1, Len(rest))
  IN IF colon >= 2 /\ (\A i \in 1..Len(g1) : g1[i] /= "/")
        /\ slash >= 2 /\ g3 /= <<>> /\ (\A i \in 1..Len(g3) : g3[i] /= "/")
     THEN [matched |-> TRUE, g1 |-> g1, g2 |-> g2, g3 |-> g3]
     ELSE [matched |-> FALSE, g1 |-> <<>>, g2 |-> <<>>, g3 |-> <<>>]

\* /^([^/]+)\/([^/]+)$/
simpleMatch(s) ==
  LET slash == FirstIndex(s, "/")
      g1 == SubSeq(s, 1, slash - 1)
      g2 == SubSeq(s, slash + 1, Len(s))
  IN IF slash >= 2 /\ g2 /= <<>> /\ (\A i \in 1..Len(g2) : g2[i] /= "/")
     THEN [matched |-> TRUE, g1 |-> g1, g2 |-> g2]
     ELSE [matched |-> FALSE, g1 |-> <<>>, g2 |-> <<>>]

\* line 38: url.replace(/\.git$/, "")
sanitize(url) ==
  IF url /= <<>> /\ url[Len(url)] = ".git" THEN SubSeq(url, 1, Len(url) - 1) ELSE url

NoParts == [host |-> <<>>, owner |-> <<>>, repo |-> <<>>]

\* lines 46-53: host and the last two path segments of a parsed URL
fromUrl(hostname, pathParts) ==
  IF Len(pathParts) >= 2
  THEN [host |-> hostname,
        owner |-> pathParts[Len(pathParts) - 1],
        repo |-> pathParts[Len(pathParts)]]
  ELSE [host |-> hostname, owner |-> <<>>, repo |-> <<>>]

\* lines 59-73: the two fallback grammars, tried only when new URL threw
fromFallback(scp, simple) ==
  IF scp.matched
  THEN [host |-> IF FirstIndex(scp.g1, "@") /= 0 THEN split(scp.g1, "@")[2] ELSE scp.g1,
        owner |-> scp.g2, repo |-> scp.g3]
  ELSE IF simple.matched
       THEN [host |-> DefaultHost, owner |-> simple.g1, repo |-> simple.g2]
       ELSE NoParts

\* lines 43-75
extractParts(sanitizedUrl, parsedUrl) ==
  IF parsedUrl.ok
  THEN fromUrl(parsedUrl.hostname, SelectSeq(split(parsedUrl.pathname, "/"), Truthy))
  ELSE fromFallback(scpMatch(sanitizedUrl), simpleMatch(sanitizedUrl))

\* lines 77-81
checkParts(url, r) ==
  IF ~Truthy(r.host) \/ ~Truthy(r.owner) \/ ~Truthy(r.repo)
  THEN Throw(createError("ENOREPO", <<"Unable to parse repository URL: ">> \o url, <<>>))
  ELSE Ok(r)

parseSanitized(url, sanitizedUrl) ==
  checkParts(url, extractParts(sanitizedUrl, URL(sanitizedUrl)))

parseRepositoryUrl(url) == parseSanitized(url, sanitize(url))

\* lines 102-105
envBranch(env) ==
  Or(replaceFirst(env.GITHUB_REF, "refs/heads/"),
     Or(replaceFirst(env.GIT_BRANCH, "origin/"), env.BRANCH_NAME))

\* lines 108-113
configBranch(branch, branches) ==
  IF ~Truthy(branch) /\ Len(branches) > 0
  THEN IF branches[1].isString THEN branches[1].str ELSE branches[1].name
  ELSE branch

\* lines 91-99 and 115-122
repoInfoFrom(repositoryUrl, parsed, branch) ==
  IF ~Truthy(repositoryUrl)
  THEN Throw(createError("ENOREPO", <<"No repository URL found in semantic-release config">>, <<>>))
  ELSE IF ~parsed.ok THEN parsed
  ELSE IF ~Truthy(branch)
       THEN Throw(createError("ENOBRANCH", <<"Unable to detect branch name">>, <<>>))
       ELSE Ok([owner |-> parsed.value.owner, repo |-> parsed.value.repo,
                branch |-> branch, host |-> parsed.value.host])

getRepoInfo(context) ==
  repoInfoFrom(context.options.repositoryUrl,
               parseRepositoryUrl(context.options.repositoryUrl),
               configBranch(envBranch(context.env), context.options.branches))

\* ------------------------------------------------------------------------
\* Commit message (prepare, "Prepare commit message")
\* ------------------------------------------------------------------------
PVersion == "${nextRelease.version}"
PGitTag == "${nextRelease.gitTag}"
PGitHead == "${nextRelease.gitHead}"
PNotes == "${nextRelease.notes}"
Placeholders == {PVersion, PGitTag, PGitHead, PNotes}

DefaultCommitMessage == <<"chore(release): ", PVersion, " [skip ci]">>
FallbackCommitMessage == <<"chore(release): update [skip ci]">>

\* GetSubstitution of ECMAScript for a pattern without capture groups: in
\* the replacement string "$$" is "$", "$&" is the matched text, "$`" the
\* text before the match, "$'" the text after it; any other "$" is itself.
RECURSIVE GetSubstitution(_, _, _, _)
GetSubstitution(replacement, matched, before, after) ==
  IF replacement = <<>> THEN <<>>
  ELSE IF Head(replacement) = "$" /\ Len(replacement) >= 2
            /\ replacement[2] \in {"$", "&", "`", "'"}
       THEN (CASE replacement[2] = "$" -> <<"$">>
               [] replacement[2] = "&" -> matched
               [] replacement[2] = "`" -> before
               [] replacement[2] = "'" -> after)
            \o GetSubstitution(SubSeq(replacement, 3, Len(replacement)),
                               matched, before, after)
       ELSE <<Head(replacement)>>
            \o GetSubstitution(Tail(replacement), matched, before, after)

\* str.replace(/<placeholder>/g, replacement) with a string replacement
replaceAll(str, placeholder, replacement) ==
  Flatten([i \in 1..Len(str) |->
             IF str[i] = placeholder
             THEN GetSubstitution(replacement, <<placeholder>>,
                                  SubSeq(str, 1, i - 1),
                                  SubSeq(str, i + 1, Len(str)))
             ELSE <<str[i]>>])

NoRelease ==
  [present |-> FALSE, version |-> <<>>, gitTag |-> <<>>, gitHead |-> <<>>, notes |-> <<>>]

\* variant: without release metadata the generic message replaces the template
composeCommitMessage_generic(pluginConfig, nextRelease) ==
  LET commitMessage == Or(pluginConfig.commitMessage, DefaultCommitMessage)
  IN IF Truthy(commitMessage) /\ nextRelease.present
     THEN replaceAll(
            replaceAll(
              replaceAll(
                replaceAll(commitMessage, PVersion, nextRelease.version),
                PGitTag, nextRelease.gitTag),
              PGitHead, nextRelease.gitHead),
            PNotes, Or(nextRelease.notes, <<>>))
     ELSE FallbackCommitMessage

composeCommitMessage(pluginConfig, nextRelease) ==
  LET commitMessage == Or(pluginConfig.commitMessage, DefaultCommitMessage)
  IN IF Truthy(commitMessage) /\ nextRelease.present
     THEN replaceAll(
            replaceAll(
              replaceAll(
                replaceAll(commitMessage, PVersion, nextRelease.version),
                PGitTag, nextRelease.gitTag),
              PGitHead, nextRelease.gitHead),
            PNotes, Or(nextRelease.notes, <<>>))
     ELSE IF ~nextRelease.present
          THEN Or(commitMessage, FallbackCommitMessage)
          ELSE commitMessage

\* ------------------------------------------------------------------------
\* The git object store of the remote host
\* ------------------------------------------------------------------------
PathNames == <<"p1", "p2", "p3", "p4">>
AllPaths == {PathNames[i] : i \in 1..Len(PathNames)}
ShaNames == <<"c1", "c2", "c3", "c4", "c5", "c6", "c7", "c8">>

\* A tree is identified by its content: the blob id at every path ("" when
\* the path is absent).
RootTree == [p \in AllPaths |-> ""]
\* value of a tree-id local that has not been assigned yet
NoTree == [p \in AllPaths |-> "unset"]
HeadTree == [p \in AllPaths |-> CASE p = "p1" -> "b1" [] p = "p2" -> "b2" [] OTHER -> ""]
OtherTree == [HeadTree EXCEPT !["p1"] = "bo"]

HostBot == [name |-> <<"github-actions[bot]">>, email |-> <<"bot@users.noreply.github.com">>]

InitialCommits ==
  ("c1" :> [tree |-> RootTree, parents |-> <<>>, message |-> <<"init">>,
            author |-> HostBot, committer |-> HostBot, verified |-> FALSE])
  @@ ("c2" :> [tree |-> HeadTree, parents |-> <<"c1">>, message |-> <<"work">>,
               author |-> HostBot, committer |-> HostBot, verified |-> FALSE])

\* a is b or an ancestor of b in the commit graph cs
RECURSIVE IsAncestor(_, _, _)
IsAncestor(cs, a, b) ==
  \/ a = b
  \/ \E i \in 1..Len(cs[b].parents) : IsAncestor(cs, a, cs[b].parents[i])

\* the blob the host stores for an upload: the content decoded with the
\* encoding named in the request
decodeBlob(content, encoding) ==
  IF content.enc = encoding THEN content.bytes ELSE "garbled"

\* POST /git/trees: the entries layered over base_tree
layerTree(base_tree, entries) ==
  [p \in AllPaths |->
     IF \E i \in 1..Len(entries) : entries[i].path = p
     THEN entries[CHOOSE i \in 1..Len(entries) :
                    entries[i].path = p
                    /\ \A j \in (i + 1)..Len(entries) : entries[j].path /= p].sha
     ELSE base_tree[p]]

\* POST /git/commits: absent author/committer are filled in by the host,
\* which signs the commit only when it chose both itself
storeCommit(params) ==
  [tree |-> params.tree, parents |-> params.parents, message |-> params.message,
   author |-> IF "author" \in DOMAIN params THEN params.author ELSE HostBot,
   committer |-> IF "committer" \in DOMAIN params THEN params.committer ELSE HostBot,
   verified |-> "author" \notin DOMAIN params /\ "committer" \notin DOMAIN params]

\* PATCH /git/refs: accepted when forced or when a fast-forward
refUpdateAccepted(cs, current, params) ==
  params.force \/ IsAncestor(cs, current, params.sha)

\* ------------------------------------------------------------------------
\* github.ts: the request each client method sends
\* ------------------------------------------------------------------------
getRefRequest(repo) ==
  [op |-> "getRef",
   params |-> [owner |-> repo.owner, repo |-> repo.repo,
               ref |-> <<"heads/">> \o repo.branch]]

createBlobRequest(repo, content, encoding) ==
  [op |-> "createBlob",
   params |-> [owner |-> repo.owner, repo |-> repo.repo,
               content |-> content, encoding |-> encoding]]

\* variant: the tree is built on the empty tree instead of the base tree
createTreeRequest_noBase(repo, baseTreeSha, files) ==
  [op |-> "createTree",
   params |-> [owner |-> repo.owner, repo |-> repo.repo, base_tree |-> RootTree,
               tree |-> [i \in 1..Len(files) |->
                           [path |-> files[i].path, mode |-> "100644",
                            type |-> "blob", sha |-> files[i].sha]]]]

createTreeRequest(repo, baseTreeSha, files) ==
  [op |-> "createTree",
   params |-> [owner |-> repo.owner, repo |-> repo.repo, base_tree |-> baseTreeSha,
               tree |-> [i \in 1..Len(files) |->
                           [path |-> files[i].path, mode |-> "100644",
                            type |-> "blob", sha |-> files[i].sha]]]]

getCommitRequest(repo, sha) ==
  [op |-> "getCommit",
   params |-> [owner |-> repo.owner, repo |-> repo.repo, commit_sha |-> sha]]

\* variant: a missing committer is sent as a copy of the author
createCommitRequest_copyAuthor(repo, message, treeSha, parentShas, author, committer) ==
  [op |-> "createCommit",
   params |-> [owner |-> repo.owner, repo |-> repo.repo, message |-> message,
               tree |-> treeSha, parents |-> parentShas]
              @@ (IF author.present
                  THEN [author |-> [name |-> author.name, email |-> author.email]]
                  ELSE <<>>)
              @@ (IF committer.present
                  THEN [committer |-> [name |-> committer.name, email |-> committer.email]]
                  ELSE IF author.present
                       THEN [committer |-> [name |-> author.name, email |-> author.email]]
                       ELSE <<>>)]

createCommitRequest(repo, message, treeSha, parentShas, author, committer) ==
  [op |-> "createCommit",
   params |-> [owner |-> repo.owner, repo |-> repo.repo, message |-> message,
               tree |-> treeSha, parents |-> parentShas]
              @@ (IF author.present
                  THEN [author |-> [name |-> author.name, email |-> author.email]]
                  ELSE <<>>)
              @@ (IF committer.present
                  THEN [committer |-> [name |-> committer.name, email |-> committer.email]]
                  ELSE <<>>)]

\* variant: the update is forced
updateRefRequest_force(repo, sha) ==
  [op |-> "updateRef",
   params |-> [owner |-> repo.owner, repo |-> repo.repo,
               ref |-> <<"heads/">> \o repo.branch, sha |-> sha, force |-> TRUE]]

updateRefRequest(repo, sha) ==
  [op |-> "updateRef",
   params |-> [owner |-> repo.owner, repo |-> repo.repo,
               ref |-> <<"heads/">> \o repo.branch, sha |-> sha, force |-> FALSE]]

\* variant: the underlying error is passed on as it came
apiError_raw(description, cause) == createError("EXTERNAL", cause, <<>>)

\* the EGHAPI error each method throws when its request fails
apiError(description, cause) == createError("EGHAPI", description, cause)

\* ------------------------------------------------------------------------
\* State
\* ------------------------------------------------------------------------
VARIABLES
  \* inputs of one invocation of prepare(pluginConfig, context)
  pluginConfig, env, options,
  fsFiles,            \* what resolveFiles / readFilesAsBlobs deliver
  \* caller-owned state reachable through context
  nextRelease, logger,
  context0,           \* env, options and nextRelease as the caller passed them
  \* prepare: position, result and locals
  pc, outcome, thrown,
  token, repoInfo, github, filePaths, fileBlobs,
  currentCommitSha, baseTreeSha, blobState, blobsWithSha, tree, commit,
  \* the remote repository
  branchRef, commits, trees, blobs, other,
  \* requests sent to the remote API, in order, and how each one ended
  \* ("pending", "ok" or "failed")
  calls, replies,
  \* the local clone and the git commands run in it
  localHead, fetchHead, execa,
  \* input and output of a function applied on its own
  unit

inputVars == <<pluginConfig, env, options, fsFiles, context0>>
localVars == <<token, repoInfo, github, filePaths, fileBlobs, currentCommitSha,
               baseTreeSha, blobState, blobsWithSha, tree, commit>>
remoteVars == <<branchRef, commits, trees, blobs>>
gitVars == <<localHead, fetchHead, execa>>
vars == <<inputVars, nextRelease, logger, pc, outcome, thrown, localVars,
          remoteVars, other, calls, replies, gitVars, unit>>

\* ------------------------------------------------------------------------
\* Inputs of the runs explored
\* ------------------------------------------------------------------------
TokenInputs ==
  { [GH_TOKEN |-> <<"tokA">>, GITHUB_TOKEN |-> <<"tokB">>, githubToken |-> <<>>],
    [GH_TOKEN |-> <<>>, GITHUB_TOKEN |-> <<>>, githubToken |-> <<>>] }

UrlInputs ==
  { <<"https", ":", "/", "/", "github.com", "/", "owner", "/", "repo", ".git">>,
    <<"https", ":", "/", "/", "ghe.corp", "/", "owner", "/", "repo">>,
    <<"invalid-url">>,
    <<>> }

BranchInputs ==
  { [GITHUB_REF |-> <<"refs/heads/", "main">>, branches |-> <<>>],
    [GITHUB_REF |-> <<>>,
     branches |-> <<[isString |-> TRUE, str |-> <<"main">>, name |-> <<>>]>>],
    [GITHUB_REF |-> <<>>, branches |-> <<>>] }

IdentityInputs ==
  { [authorName |-> <<>>, authorEmail |-> <<>>],
    [authorName |-> <<"alice">>, authorEmail |-> <<"alice@example.com">>] }

MessageInputs == { <<>>, <<"release: ", PVersion, " tag: ", PGitTag>> }

ReleaseInputs ==
  { NoRelease,
    [present |-> TRUE, version |-> <<"1.0.0">>, gitTag |-> <<"v1.0.0">>,
     gitHead |-> <<"c2">>, notes |-> <<"notes">>] }

\* file i is either a text file whose content is what the head tree already
\* holds at its path, or a binary file with new content
FileInputs(i) ==
  { [path |-> PathNames[i], content |-> [enc |-> "utf-8", bytes |-> HeadTree[PathNames[i]]],
     encoding |-> "utf-8"],
    [path |-> PathNames[i], content |-> [enc |-> "base64", bytes |-> "bin"],
     encoding |-> "base64"] }
FileSetInputs ==
  UNION { {f \in [1..n -> UNION {FileInputs(i) : i \in 1..n}] :
             \A i \in 1..n : f[i] \in FileInputs(i)} : n \in 0..MaxFiles }

NoUnit == [fn |-> "none"]

InputsInit ==
  /\ \E t \in TokenInputs, b \in BranchInputs, id \in IdentityInputs,
        m \in MessageInputs, d \in BOOLEAN :
       /\ pluginConfig = [files |-> <<"dist/**">>, githubToken |-> t.githubToken,
                          commitMessage |-> m,
                          authorName |-> id.authorName, authorEmail |-> id.authorEmail,
                          committerName |-> <<>>, committerEmail |-> <<>>,
                          dryRun |-> d]
       /\ env = [GH_TOKEN |-> t.GH_TOKEN, GITHUB_TOKEN |-> t.GITHUB_TOKEN,
                 GITHUB_REF |-> b.GITHUB_REF, GIT_BRANCH |-> <<>>, BRANCH_NAME |-> <<>>,
                 GIT_AUTHOR_NAME |-> <<>>, GIT_AUTHOR_EMAIL |-> <<>>,
                 GIT_COMMITTER_NAME |-> BotName, GIT_COMMITTER_EMAIL |-> BotEmail]
       /\ \E u \in UrlInputs : options = [repositoryUrl |-> u, branches |-> b.branches]
  /\ fsFiles \in FileSetInputs
  /\ nextRelease \in ReleaseInputs
  /\ context0 = [env |-> env, options |-> options, nextRelease |-> nextRelease]

\* state of an invocation that has not started, and of the repository it
\* will publish to
RestInit ==
  /\ logger = <<>>
  /\ pc = "start" /\ outcome = "running" /\ thrown = NoError
  /\ token = <<>>
  /\ repoInfo = [owner |-> <<>>, repo |-> <<>>, branch |-> <<>>, host |-> <<>>]
  /\ github = [auth |-> <<>>, baseUrl |-> <<>>]
  /\ filePaths = <<>> /\ fileBlobs = <<>>
  /\ currentCommitSha = "" /\ baseTreeSha = NoTree
  /\ blobState = <<>> /\ blobsWithSha = <<>>
  /\ tree = NoTree /\ commit = ""
  /\ branchRef = "c2" /\ commits = InitialCommits
  /\ trees = {RootTree, HeadTree} /\ blobs = {"b1", "b2"}
  /\ other = 0
  /\ calls = <<>> /\ replies = <<>>
  /\ localHead = "c2" /\ fetchHead = "" /\ execa = <<>>

Init == InputsInit /\ RestInit /\ unit = NoUnit

\* ------------------------------------------------------------------------
\* prepare
\* ------------------------------------------------------------------------
\* variant: the dry-run flag is not consulted
isDryRun_never(config) == FALSE

\* line 15
isDryRun(config) == config.dryRun

\* variant: an empty resolution does not stop the run
noFilesMatched_never(paths) == FALSE

\* line 42
noFilesMatched(paths) == Len(paths) = 0

\* variant: the idempotency check is missing
treeIdentical_never(treeSha, base) == FALSE

\* line 97
treeIdentical(treeSha, base) == treeSha = base

\* variant: the write-back is missing
writeBack_skip(release, sha) == release

\* variant: the write-back does not test that nextRelease exists
writeBack_always(release, sha) == [release EXCEPT !.gitHead = <<sha>>]

\* lines 195-198: the new commit id is written only into an existing nextRelease
writeBack(release, sha) ==
  IF release.present THEN [release EXCEPT !.gitHead = <<sha>>] ELSE release

Log(level, kind, data) == [level |-> level, kind |-> kind, data |-> data]

Finish(o, e) == pc' = "done" /\ outcome' = o /\ thrown' = e

\* GitHubClient lines 14-19: every method sends through this.octokit, the
\* one Octokit built with the client's base URL
through(client, request) == request @@ [baseUrl |-> client.baseUrl]

\* one round trip: the request goes out and its reply comes back
Sent(request, reply) ==
  /\ calls' = Append(calls, through(github, request))
  /\ replies' = Append(replies, reply)

\* position in calls of the createBlob request for file i
blobCall(i) ==
  CHOOSE k \in 1..Len(calls) :
    /\ calls[k].op = "createBlob"
    /\ Cardinality({j \in 1..k : calls[j].op = "createBlob"}) = i

\* an error of a collaborator outside prepare (file system, transport)
externalError(what) == createError("EXTERNAL", what, <<>>)
HttpError == <<"HTTP error">>

\* variant: the public API is used whatever the host
apiUrlOf_public(host) == <<>>

\* lines 26-29
apiUrlOf(host) ==
  IF host = DefaultHost THEN <<>> ELSE <<"https://">> \o host \o <<"/api/v3">>

\* lines 21-39, once the token and the repository identity are known
startLog(info, apiUrl) ==
  <<Log("log", "Preparing to commit files to", info)>>
  \o (IF Truthy(apiUrl) THEN <<Log("log", "Using custom GitHub API URL", apiUrl)>> ELSE <<>>)
  \o <<Log("log", "Resolving file patterns", pluginConfig.files)>>

\* variant: a dry run returns before the token and the repository are looked at
startWith_dryRunFirst(tokenResult, repoResult) ==
  IF isDryRun(pluginConfig)
  THEN /\ Finish("skipped-dry-run", NoError)
       /\ UNCHANGED <<logger, token, repoInfo, github>>
  ELSE IF ~tokenResult.ok
  THEN /\ Finish("error", tokenResult.error)
       /\ UNCHANGED <<logger, token, repoInfo, github>>
  ELSE IF ~repoResult.ok
  THEN /\ Finish("error", repoResult.error)
       /\ UNCHANGED <<logger, token, repoInfo, github>>
  ELSE /\ token' = tokenResult.value
       /\ repoInfo' = repoResult.value
       /\ github' = [auth |-> tokenResult.value, baseUrl |-> apiUrlOf(repoResult.value.host)]
       /\ logger' = logger \o startLog(repoResult.value, apiUrlOf(repoResult.value.host))
       /\ pc' = "resolveFiles"
       /\ UNCHANGED <<outcome, thrown>>

\* lines 18-39: getAuthToken throws first, then getRepoInfo
startWith(tokenResult, repoResult) ==
  IF ~tokenResult.ok
  THEN /\ Finish("error", tokenResult.error)
       /\ UNCHANGED <<logger, token, repoInfo, github>>
  ELSE IF ~repoResult.ok
  THEN /\ Finish("error", repoResult.error)
       /\ UNCHANGED <<logger, token, repoInfo, github>>
  ELSE /\ token' = tokenResult.value
       /\ repoInfo' = repoResult.value
       /\ github' = [auth |-> tokenResult.value, baseUrl |-> apiUrlOf(repoResult.value.host)]
       /\ logger' = logger \o startLog(repoResult.value, apiUrlOf(repoResult.value.host))
       /\ pc' = "resolveFiles"
       /\ UNCHANGED <<outcome, thrown>>

\* lines 14-39: token, repository identity, client construction
Start ==
  /\ pc = "start"
  /\ startWith(getAuthToken(env, pluginConfig.githubToken),
               getRepoInfo([env |-> env, options |-> options]))
  /\ UNCHANGED <<inputVars, nextRelease, filePaths, fileBlobs, currentCommitSha,
                 baseTreeSha, blobState, blobsWithSha, tree, commit,
                 remoteVars, other, calls, replies, gitVars, unit>>

\* lines 40-50: the resolver returned
resolveFilesOk ==
  /\ pc = "resolveFiles"
  /\ filePaths' = [i \in 1..Len(fsFiles) |-> fsFiles[i].path]
  /\ IF noFilesMatched(filePaths')
     THEN /\ logger' = Append(logger, Log("warn", "No files matched the provided patterns - skipping commit", <<>>))
          /\ Finish("skipped-empty", NoError)
     ELSE /\ logger' = logger
               \o <<Log("log", "Resolved file(s)", filePaths'),
                    Log("log", "Reading file contents...", <<>>)>>
          /\ pc' = "readFiles"
          /\ UNCHANGED <<outcome, thrown>>
  /\ UNCHANGED <<inputVars, nextRelease, token, repoInfo, github, fileBlobs,
                 currentCommitSha, baseTreeSha, blobState, blobsWithSha, tree, commit,
                 remoteVars, other, calls, replies, gitVars, unit>>

resolveFilesFail ==
  /\ pc = "resolveFiles"
  /\ Finish("error", externalError(<<"resolveFiles">>))
  /\ UNCHANGED <<inputVars, nextRelease, logger, localVars, remoteVars, other,
                 calls, replies, gitVars, unit>>

\* lines 51-63: the reader returned; dry run stops here
readFilesOk ==
  /\ pc = "readFiles"
  /\ fileBlobs' = fsFiles
  /\ IF isDryRun(pluginConfig)
     THEN /\ logger' = logger
               \o <<Log("log", "[DRY RUN] Would commit the following files:", <<>>)>>
               \o [i \in 1..Len(fsFiles) |->
                     Log("log", "[DRY RUN] file",
                         [path |-> fsFiles[i].path, encoding |-> fsFiles[i].encoding])]
               \o <<Log("log", "[DRY RUN] Skipping actual commit creation", <<>>)>>
          /\ Finish("skipped-dry-run", NoError)
     ELSE /\ logger' = Append(logger, Log("log", "Getting current ref for branch", repoInfo.branch))
          /\ pc' = "getRef"
          /\ UNCHANGED <<outcome, thrown>>
  /\ UNCHANGED <<inputVars, nextRelease, token, repoInfo, github, filePaths,
                 currentCommitSha, baseTreeSha, blobState, blobsWithSha, tree, commit,
                 remoteVars, other, calls, replies, gitVars, unit>>

readFilesFail ==
  /\ pc = "readFiles"
  /\ Finish("error", externalError(<<"readFilesAsBlobs">>))
  /\ UNCHANGED <<inputVars, nextRelease, logger, localVars, remoteVars, other,
                 calls, replies, gitVars, unit>>

\* lines 64-66 and GitHubClient.getRef
getRefOk ==
  /\ pc = "getRef"
  /\ Sent(getRefRequest(repoInfo), "ok")
  /\ currentCommitSha' = branchRef
  /\ logger' = Append(logger, Log("log", "Current commit", branchRef))
  /\ pc' = "getCommit"
  /\ UNCHANGED <<inputVars, nextRelease, outcome, thrown, token, repoInfo, github,
                 filePaths, fileBlobs, baseTreeSha, blobState, blobsWithSha, tree,
                 commit, remoteVars, other, gitVars, unit>>

getRefFail ==
  /\ pc = "getRef"
  /\ Sent(getRefRequest(repoInfo), "failed")
  /\ Finish("error", apiError(<<"Failed to get ref for branch">> \o repoInfo.branch, HttpError))
  /\ UNCHANGED <<inputVars, nextRelease, logger, localVars, remoteVars, other,
                 gitVars, unit>>

\* lines 69-74 and GitHubClient.getCommit
getCommitOk ==
  /\ pc = "getCommit"
  /\ Sent(getCommitRequest(repoInfo, currentCommitSha), "ok")
  /\ baseTreeSha' = commits[currentCommitSha].tree
  /\ logger' = logger
       \o <<Log("log", "Base tree", baseTreeSha'),
            Log("log", "Creating blob(s)...", Len(fileBlobs))>>
  /\ pc' = "createBlobs"
  /\ UNCHANGED <<inputVars, nextRelease, outcome, thrown, token, repoInfo, github,
                 filePaths, fileBlobs, currentCommitSha, blobState, blobsWithSha,
                 tree, commit, remoteVars, other, gitVars, unit>>

getCommitFail ==
  /\ pc = "getCommit"
  /\ Sent(getCommitRequest(repoInfo, currentCommitSha), "failed")
  /\ Finish("error", apiError(<<"Failed to get commit", currentCommitSha>>, HttpError))
  /\ UNCHANGED <<inputVars, nextRelease, logger, localVars, remoteVars, other,
                 gitVars, unit>>

\* lines 75-87: fileBlobs.map starts one createBlob per file, in order,
\* before any of them completes
createBlobs ==
  /\ pc = "createBlobs"
  /\ calls' = calls \o [i \in 1..Len(fileBlobs) |->
                          through(github,
                                  createBlobRequest(repoInfo, fileBlobs[i].content,
                                                    fileBlobs[i].encoding))]
  /\ replies' = replies \o [i \in 1..Len(fileBlobs) |-> "pending"]
  /\ blobState' = [i \in 1..Len(fileBlobs) |-> "inflight"]
  /\ blobsWithSha' = [i \in 1..Len(fileBlobs) |-> [path |-> fileBlobs[i].path, sha |-> ""]]
  /\ pc' = "awaitBlobs"
  /\ UNCHANGED <<inputVars, nextRelease, logger, outcome, thrown, token, repoInfo,
                 github, filePaths, fileBlobs, currentCommitSha, baseTreeSha, tree,
                 commit, remoteVars, other, gitVars, unit>>

\* variant: the results are collected in the order the uploads complete
createBlobOk_arrival(i) ==
  /\ i \in DOMAIN blobState /\ blobState[i] = "inflight"
  /\ LET request == createBlobRequest(repoInfo, fileBlobs[i].content, fileBlobs[i].encoding)
         sha == decodeBlob(request.params.content, request.params.encoding)
     IN /\ blobs' = blobs \cup {sha}
        /\ blobState' = [blobState EXCEPT ![i] = "done"]
        /\ replies' = [replies EXCEPT ![blobCall(i)] = "ok"]
        /\ blobsWithSha' =
             [blobsWithSha EXCEPT
                ![Cardinality({j \in DOMAIN blobState : blobState[j] = "done"}) + 1].sha = sha]
  /\ IF pc = "awaitBlobs" /\ \A j \in DOMAIN blobState' : blobState'[j] = "done"
     THEN /\ logger' = logger
               \o <<Log("log", "Created blob(s)", Len(blobsWithSha)),
                    Log("log", "Creating tree...", <<>>)>>
          /\ pc' = "createTree"
     ELSE UNCHANGED <<logger, pc>>
  /\ UNCHANGED <<inputVars, nextRelease, outcome, thrown, token, repoInfo, github,
                 filePaths, fileBlobs, currentCommitSha, baseTreeSha, tree, commit,
                 branchRef, commits, trees, other, calls, gitVars, unit>>

\* one createBlob completes; Promise.all resolves on the last success
createBlobOk(i) ==
  /\ i \in DOMAIN blobState /\ blobState[i] = "inflight"
  /\ LET request == createBlobRequest(repoInfo, fileBlobs[i].content, fileBlobs[i].encoding)
         sha == decodeBlob(request.params.content, request.params.encoding)
     IN /\ blobs' = blobs \cup {sha}
        /\ blobState' = [blobState EXCEPT ![i] = "done"]
        /\ replies' = [replies EXCEPT ![blobCall(i)] = "ok"]
        /\ blobsWithSha' = [blobsWithSha EXCEPT ![i].sha = sha]
  /\ IF pc = "awaitBlobs" /\ \A j \in DOMAIN blobState' : blobState'[j] = "done"
     THEN /\ logger' = logger
               \o <<Log("log", "Created blob(s)", Len(blobsWithSha)),
                    Log("log", "Creating tree...", <<>>)>>
          /\ pc' = "createTree"
     ELSE UNCHANGED <<logger, pc>>
  /\ UNCHANGED <<inputVars, nextRelease, outcome, thrown, token, repoInfo, github,
                 filePaths, fileBlobs, currentCommitSha, baseTreeSha, tree, commit,
                 branchRef, commits, trees, other, calls, gitVars, unit>>

\* variant: the failure is raised only when every upload has settled
createBlobFail_settled(i) ==
  /\ i \in DOMAIN blobState /\ blobState[i] = "inflight"
  /\ blobState' = [blobState EXCEPT ![i] = "failed"]
  /\ replies' = [replies EXCEPT ![blobCall(i)] = "failed"]
  /\ IF pc = "awaitBlobs" /\ \A j \in DOMAIN blobState' : blobState'[j] /= "inflight"
     THEN Finish("error", apiError(<<"Failed to create blob">>, HttpError))
     ELSE UNCHANGED <<pc, outcome, thrown>>
  /\ UNCHANGED <<inputVars, nextRelease, logger, token, repoInfo, github, filePaths,
                 fileBlobs, currentCommitSha, baseTreeSha, blobsWithSha, tree, commit,
                 remoteVars, other, calls, gitVars, unit>>

\* one createBlob fails; Promise.all rejects on the first failure
createBlobFail(i) ==
  /\ i \in DOMAIN blobState /\ blobState[i] = "inflight"
  /\ blobState' = [blobState EXCEPT ![i] = "failed"]
  /\ replies' = [replies EXCEPT ![blobCall(i)] = "failed"]
  /\ IF pc = "awaitBlobs"
     THEN Finish("error", apiError(<<"Failed to create blob">>, HttpError))
     ELSE UNCHANGED <<pc, outcome, thrown>>
  /\ UNCHANGED <<inputVars, nextRelease, logger, token, repoInfo, github, filePaths,
                 fileBlobs, currentCommitSha, baseTreeSha, blobsWithSha, tree, commit,
                 remoteVars, other, calls, gitVars, unit>>

\* lines 93-102 and GitHubClient.createTree; an identical tree stops the run
createTreeOk ==
  /\ pc = "createTree"
  /\ LET request == createTreeRequest(repoInfo, baseTreeSha, blobsWithSha)
         sha == layerTree(request.params.base_tree, request.params.tree)
     IN /\ Sent(request, "ok")
        /\ trees' = trees \cup {sha}
        /\ tree' = sha
        /\ IF treeIdentical(sha, baseTreeSha)
           THEN /\ logger' = logger
                     \o <<Log("log", "Created tree", sha),
                          Log("log", "No changes detected - tree is identical to base tree. Skipping commit.", <<>>)>>
                /\ Finish("skipped-no-change", NoError)
           ELSE /\ logger' = Append(logger, Log("log", "Created tree", sha))
                /\ pc' = "createCommit"
                /\ UNCHANGED <<outcome, thrown>>
  /\ UNCHANGED <<inputVars, nextRelease, token, repoInfo, github, filePaths,
                 fileBlobs, currentCommitSha, baseTreeSha, blobState, blobsWithSha,
                 commit, branchRef, commits, blobs, other, gitVars, unit>>

\* variant: a failed createTree is ignored and the run goes on to the commit
createTreeFail_ignored ==
  /\ pc = "createTree"
  /\ Sent(createTreeRequest(repoInfo, baseTreeSha, blobsWithSha), "failed")
  /\ pc' = "createCommit"
  /\ UNCHANGED <<inputVars, nextRelease, logger, outcome, thrown, localVars, remoteVars,
                 other, gitVars, unit>>

createTreeFail ==
  /\ pc = "createTree"
  /\ Sent(createTreeRequest(repoInfo, baseTreeSha, blobsWithSha), "failed")
  /\ Finish("error", apiError(<<"Failed to create tree">>, HttpError))
  /\ UNCHANGED <<inputVars, nextRelease, logger, localVars, remoteVars, other,
                 gitVars, unit>>

\* lines 104-148: message, identities and the log lines before the request
identityLog(author, committer) ==
  IF author.present \/ committer.present
  THEN <<Log("log", "Using custom identity - commit will NOT be auto-signed:", <<>>)>>
       \o (IF author.present THEN <<Log("log", "Author", author)>> ELSE <<>>)
       \o (IF committer.present THEN <<Log("log", "Committer", committer)>> ELSE <<>>)
  ELSE <<Log("log", "No custom identity provided - GitHub will auto-sign with authenticated app/bot", <<>>)>>

\* variant: the commit is created without a parent
commitRequest_noParent ==
  createCommitRequest(
    repoInfo,
    composeCommitMessage(pluginConfig, nextRelease),
    tree,
    <<>>,
    getGitIdentity(env, "author", pluginConfig.authorName, pluginConfig.authorEmail),
    getGitIdentity(env, "committer", pluginConfig.committerName, pluginConfig.committerEmail))

commitRequest ==
  createCommitRequest(
    repoInfo,
    composeCommitMessage(pluginConfig, nextRelease),
    tree,
    <<currentCommitSha>>,
    getGitIdentity(env, "author", pluginConfig.authorName, pluginConfig.authorEmail),
    getGitIdentity(env, "committer", pluginConfig.committerName, pluginConfig.committerEmail))

commitLog ==
  identityLog(
    getGitIdentity(env, "author", pluginConfig.authorName, pluginConfig.authorEmail),
    getGitIdentity(env, "committer", pluginConfig.committerName, pluginConfig.committerEmail))
  \o <<Log("log", "Creating commit...", <<>>)>>

\* lines 104-161 and GitHubClient.createCommit
createCommitOk ==
  /\ pc = "createCommit"
  /\ LET sha == ShaNames[Cardinality(DOMAIN commits) + 1]
     IN /\ Sent(commitRequest, "ok")
        /\ commits' = commits @@ (sha :> storeCommit(commitRequest.params))
        /\ commit' = sha
        /\ logger' = logger \o commitLog
             \o <<Log("log", "Created commit", sha),
                  Log("log", "Updating ref", [branch |-> repoInfo.branch, sha |-> sha])>>
  /\ pc' = "updateRef"
  /\ UNCHANGED <<inputVars, nextRelease, outcome, thrown, token, repoInfo, github,
                 filePaths, fileBlobs, currentCommitSha, baseTreeSha, blobState,
                 blobsWithSha, tree, branchRef, trees, blobs, other, gitVars, unit>>

createCommitFail ==
  /\ pc = "createCommit"
  /\ Sent(commitRequest, "failed")
  /\ logger' = logger \o commitLog
  /\ Finish("error", apiError(<<"Failed to create commit">>, HttpError))
  /\ UNCHANGED <<inputVars, nextRelease, localVars, remoteVars, other, gitVars, unit>>

\* variant: the reset is run without the fetch before it
updateRefOk_noFetch ==
  /\ pc = "updateRef"
  /\ LET request == updateRefRequest(repoInfo, commit)
     IN /\ refUpdateAccepted(commits, branchRef, request.params)
        /\ Sent(request, "ok")
        /\ branchRef' = request.params.sha
  /\ logger' = Append(logger, Log("log", "Fetching new commit into local repository...", <<>>))
  /\ pc' = "reset"
  /\ UNCHANGED <<inputVars, nextRelease, outcome, thrown, localVars, commits, trees,
                 blobs, other, gitVars, unit>>

\* line 162 and GitHubClient.updateRef
updateRefOk ==
  /\ pc = "updateRef"
  /\ LET request == updateRefRequest(repoInfo, commit)
     IN /\ refUpdateAccepted(commits, branchRef, request.params)
        /\ Sent(request, "ok")
        /\ branchRef' = request.params.sha
  /\ logger' = Append(logger, Log("log", "Fetching new commit into local repository...", <<>>))
  /\ pc' = "fetch"
  /\ UNCHANGED <<inputVars, nextRelease, outcome, thrown, localVars, commits, trees,
                 blobs, other, gitVars, unit>>

\* variant: after a failed ref update the run goes back to reading the ref
updateRefFail_reread ==
  /\ pc = "updateRef"
  /\ Sent(updateRefRequest(repoInfo, commit), "failed")
  /\ pc' = "getRef"
  /\ UNCHANGED <<inputVars, nextRelease, logger, outcome, thrown, token, repoInfo,
                 github, filePaths, fileBlobs, currentCommitSha, baseTreeSha,
                 blobState, blobsWithSha, tree, commit, remoteVars, other,
                 gitVars, unit>>

\* variant: a failed ref update is swallowed and the run goes on
updateRefFail_swallowed ==
  /\ pc = "updateRef"
  /\ Sent([op |-> "updateRef",
           params |-> [owner |-> repoInfo.owner, repo |-> repoInfo.repo,
                       ref |-> <<"heads/">> \o repoInfo.branch, sha |-> commit,
                       force |-> FALSE]], "failed")
  /\ logger' = Append(logger, Log("log", "Fetching new commit into local repository...", <<>>))
  /\ pc' = "fetch"
  /\ UNCHANGED <<inputVars, nextRelease, outcome, thrown, localVars, remoteVars,
                 other, gitVars, unit>>

updateRefFail ==
  /\ pc = "updateRef"
  /\ LET request == updateRefRequest(repoInfo, commit)
     IN /\ Sent(request, "failed")
        /\ Finish("error",
                  apiError(<<"Failed to update ref heads/">> \o repoInfo.branch \o <<commit>>,
                           IF refUpdateAccepted(commits, branchRef, request.params)
                           THEN HttpError ELSE <<"Update is not a fast forward">>))
  /\ UNCHANGED <<inputVars, nextRelease, logger, localVars, remoteVars, other,
                 gitVars, unit>>

\* lines 171-192: the local clone
authenticatedUrl ==
  <<"https", ":", "/", "/", "x-access-token", ":">> \o token \o <<"@">> \o repoInfo.host
  \o <<"/">> \o repoInfo.owner \o <<"/">> \o repoInfo.repo \o <<".git">>

fetchCommand == <<"git", "fetch">> \o authenticatedUrl \o repoInfo.branch
resetCommand == <<"git", "reset", "--hard", "FETCH_HEAD">>

\* the error execa rejects with names the command that failed
execaError(command) == createError("EXECA", <<"Command failed: ">> \o command, <<>>)

\* variant: the failure is re-raised without being logged
syncFailed_silent(command) ==
  /\ execa' = Append(execa, [command |-> command, failed |-> TRUE])
  /\ logger' = logger
  /\ Finish("error", execaError(command))

syncFailed(command) ==
  /\ execa' = Append(execa, [command |-> command, failed |-> TRUE])
  /\ logger' = Append(logger, Log("error", "Failed to fetch new commit into local repository:",
                                  execaError(command).message))
  /\ Finish("error", execaError(command))

fetchOk ==
  /\ pc = "fetch"
  /\ execa' = Append(execa, [command |-> fetchCommand, failed |-> FALSE])
  /\ fetchHead' = branchRef
  /\ pc' = "reset"
  /\ UNCHANGED <<inputVars, nextRelease, logger, outcome, thrown, localVars,
                 remoteVars, other, calls, replies, localHead, unit>>

fetchFail ==
  /\ pc = "fetch"
  /\ syncFailed(fetchCommand)
  /\ UNCHANGED <<inputVars, nextRelease, localVars, remoteVars, other, calls, replies,
                 localHead, fetchHead, unit>>

\* variant: after the reset prepare waits on and never returns
resetOk_unreturned ==
  /\ pc = "reset"
  /\ execa' = Append(execa, [command |-> resetCommand, failed |-> FALSE])
  /\ localHead' = fetchHead
  /\ pc' = "waiting"
  /\ UNCHANGED <<inputVars, nextRelease, logger, outcome, thrown, localVars,
                 remoteVars, other, calls, replies, fetchHead, unit>>

\* lines 181-203: reset, then the write-back of the new commit id
resetOk ==
  /\ pc = "reset"
  /\ execa' = Append(execa, [command |-> resetCommand, failed |-> FALSE])
  /\ localHead' = fetchHead
  /\ nextRelease' = writeBack(nextRelease, commit)
  /\ logger' = logger
       \o <<Log("log", "Local repository updated to", commit)>>
       \o (IF nextRelease.present
           THEN <<Log("log", "Updated nextRelease.gitHead to", commit)>> ELSE <<>>)
       \o <<Log("log", "Successfully committed file(s) in commit",
                [files |-> Len(fileBlobs), sha |-> commit])>>
  /\ Finish("committed", NoError)
  /\ UNCHANGED <<inputVars, localVars, remoteVars, other, calls, replies, fetchHead, unit>>

resetFail ==
  /\ pc = "reset"
  /\ syncFailed(resetCommand)
  /\ UNCHANGED <<inputVars, nextRelease, localVars, remoteVars, other, calls, replies,
                 localHead, fetchHead, unit>>

\* ------------------------------------------------------------------------
\* Another writer to the same branch
\* ------------------------------------------------------------------------
otherPush ==
  /\ outcome = "running" /\ other < MaxOther
  /\ LET sha == ShaNames[Cardinality(DOMAIN commits) + 1]
     IN /\ commits' = commits @@
             (sha :> [tree |-> OtherTree, parents |-> <<branchRef>>,
                      message |-> <<"other">>, author |-> HostBot,
                      committer |-> HostBot, verified |-> FALSE])
        /\ branchRef' = sha
  /\ trees' = trees \cup {OtherTree}
  /\ blobs' = blobs \cup {"bo"}
  /\ other' = other + 1
  /\ UNCHANGED <<inputVars, nextRelease, logger, pc, outcome, thrown, localVars,
                 calls, replies, gitVars, unit>>

\* a forced update that rewinds the branch by one commit
otherForce ==
  /\ outcome = "running" /\ other < MaxOther
  /\ commits[branchRef].parents /= <<>>
  /\ branchRef' = commits[branchRef].parents[1]
  /\ other' = other + 1
  /\ UNCHANGED <<inputVars, nextRelease, logger, pc, outcome, thrown, localVars,
                 commits, trees, blobs, calls, replies, gitVars, unit>>

Next ==
  \/ Start
  \/ resolveFilesOk \/ resolveFilesFail
  \/ readFilesOk \/ readFilesFail
  \/ getRefOk \/ getRefFail
  \/ getCommitOk \/ getCommitFail
  \/ createBlobs
  \/ \E i \in 1..MaxFiles : createBlobOk(i)
  \/ \E i \in 1..MaxFiles : createBlobFail(i)
  \/ createTreeOk \/ createTreeFail
  \/ createCommitOk \/ createCommitFail
  \/ updateRefOk \/ updateRefFail
  \/ fetchOk \/ fetchFail
  \/ resetOk \/ resetFail
  \/ otherPush \/ otherForce

Spec == Init /\ [][Next]_vars

\* the synchronous opening of prepare, lines 14-39, by its effect on the
\* position alone: getAuthToken and getRepoInfo return or throw at once
started == pc = "start" /\ pc' \in {"resolveFiles", "done"}

\* an awaited call, file operation or git command that is outstanding
\* returns or throws
awaited ==
  \/ resolveFilesOk \/ resolveFilesFail
  \/ readFilesOk \/ readFilesFail
  \/ getRefOk \/ getRefFail
  \/ getCommitOk \/ getCommitFail
  \/ createBlobs
  \/ \E i \in 1..MaxFiles : createBlobOk(i)
  \/ \E i \in 1..MaxFiles : createBlobFail(i)
  \/ createTreeOk \/ createTreeFail
  \/ createCommitOk \/ createCommitFail
  \/ updateRefOk \/ updateRefFail
  \/ fetchOk \/ fetchFail
  \/ resetOk \/ resetFail

\* runs that differ in the token, the dry-run flag and the files only
FairInputsInit ==
  /\ \E t \in TokenInputs, d \in BOOLEAN :
       /\ pluginConfig = [files |-> <<"dist/**">>, githubToken |-> t.githubToken,
                          commitMessage |-> <<>>,
                          authorName |-> <<>>, authorEmail |-> <<>>,
                          committerName |-> <<>>, committerEmail |-> <<>>,
                          dryRun |-> d]
       /\ env = [GH_TOKEN |-> t.GH_TOKEN, GITHUB_TOKEN |-> t.GITHUB_TOKEN,
                 GITHUB_REF |-> <<"refs/heads/", "main">>, GIT_BRANCH |-> <<>>,
                 BRANCH_NAME |-> <<>>,
                 GIT_AUTHOR_NAME |-> <<>>, GIT_AUTHOR_EMAIL |-> <<>>,
                 GIT_COMMITTER_NAME |-> <<>>, GIT_COMMITTER_EMAIL |-> <<>>]
  /\ options = [repositoryUrl |-> <<"https", ":", "/", "/", "github.com", "/",
                                    "owner", "/", "repo", ".git">>,
                branches |-> <<>>]
  /\ fsFiles \in FileSetInputs
  /\ nextRelease = NoRelease
  /\ context0 = [env |-> env, options |-> options, nextRelease |-> nextRelease]

FairInit == FairInputsInit /\ RestInit /\ unit = NoUnit

\* the same program where no awaited operation stays outstanding for ever;
\* the other writer is under no obligation
FairSpec == FairInit /\ [][Next]_vars /\ WF_pc(started) /\ WF_vars(awaited)

\* ------------------------------------------------------------------------
\* The commit message on its own: templates and release values over small
\* alphabets, composed exactly as prepare composes them
\* ------------------------------------------------------------------------
TemplateTokens == {"x"} \cup Placeholders
ValueTokens == {"x", "$", "&", PGitTag}
Templates == SeqsUpTo(TemplateTokens, MaxTemplateLen)
Values == SeqsUpTo(ValueTokens, MaxValueLen)

MsgInputsInit ==
  /\ \E t \in Templates :
       pluginConfig = [files |-> <<"dist/**">>, githubToken |-> <<>>,
                       commitMessage |-> t,
                       authorName |-> <<>>, authorEmail |-> <<>>,
                       committerName |-> <<>>, committerEmail |-> <<>>,
                       dryRun |-> FALSE]
  /\ env = [GH_TOKEN |-> <<"tokA">>, GITHUB_TOKEN |-> <<>>,
            GITHUB_REF |-> <<"refs/heads/", "main">>, GIT_BRANCH |-> <<>>,
            BRANCH_NAME |-> <<>>,
            GIT_AUTHOR_NAME |-> <<>>, GIT_AUTHOR_EMAIL |-> <<>>,
            GIT_COMMITTER_NAME |-> <<>>, GIT_COMMITTER_EMAIL |-> <<>>]
  /\ options = [repositoryUrl |-> <<"owner", "/", "repo">>, branches |-> <<>>]
  /\ fsFiles = <<>>
  /\ \/ nextRelease = NoRelease
     \/ \E v \in Values, n \in Values :
          nextRelease = [present |-> TRUE, version |-> v, gitTag |-> <<"v1.0.0">>,
                         gitHead |-> <<"c2">>, notes |-> n]
  /\ context0 = [env |-> env, options |-> options, nextRelease |-> nextRelease]

MsgInit == MsgInputsInit /\ RestInit /\ unit = NoUnit

composeMessage ==
  /\ unit = NoUnit
  /\ unit' = [fn |-> "composeCommitMessage",
              out |-> composeCommitMessage(pluginConfig, nextRelease)]
  /\ UNCHANGED <<inputVars, nextRelease, logger, pc, outcome, thrown, localVars,
                 remoteVars, other, calls, replies, gitVars>>

MsgNext == composeMessage

MsgSpec == MsgInit /\ [][MsgNext]_vars

\* ------------------------------------------------------------------------
\* Author and committer on their own: every combination of configured and
\* environment names and emails, resolved and put into the createCommit
\* request exactly as prepare does
\* ------------------------------------------------------------------------
ConfigNames == {<<>>, BotName, <<"Config Name">>}
ConfigEmails == {<<>>, BotEmail, <<"config@example.com">>}
EnvNames == {<<>>, BotName, <<"Env Name">>}
EnvEmails == {<<>>, BotEmail, <<"env@example.com">>}

IdInputsInit ==
  /\ \E an \in ConfigNames, ae \in ConfigEmails, cn \in ConfigNames, ce \in ConfigEmails :
       pluginConfig = [files |-> <<"dist/**">>, githubToken |-> <<>>,
                       commitMessage |-> <<>>,
                       authorName |-> an, authorEmail |-> ae,
                       committerName |-> cn, committerEmail |-> ce,
                       dryRun |-> FALSE]
  /\ \E an \in EnvNames, ae \in EnvEmails, cn \in EnvNames, ce \in EnvEmails :
       env = [GH_TOKEN |-> <<"tokA">>, GITHUB_TOKEN |-> <<>>,
              GITHUB_REF |-> <<"refs/heads/", "main">>, GIT_BRANCH |-> <<>>,
              BRANCH_NAME |-> <<>>,
              GIT_AUTHOR_NAME |-> an, GIT_AUTHOR_EMAIL |-> ae,
              GIT_COMMITTER_NAME |-> cn, GIT_COMMITTER_EMAIL |-> ce]
  /\ options = [repositoryUrl |-> <<"owner", "/", "repo">>, branches |-> <<>>]
  /\ fsFiles = <<>>
  /\ nextRelease = NoRelease
  /\ context0 = [env |-> env, options |-> options, nextRelease |-> nextRelease]

IdInit == IdInputsInit /\ RestInit /\ unit = NoUnit

\* prepare lines 121-156: both identities, then the request built from them
resolveIdentities ==
  /\ unit = NoUnit
  /\ unit' = [fn |-> "getGitIdentity",
              author |-> getGitIdentity(env, "author", pluginConfig.authorName,
                                        pluginConfig.authorEmail),
              committer |-> getGitIdentity(env, "committer", pluginConfig.committerName,
                                           pluginConfig.committerEmail),
              request |-> commitRequest]
  /\ UNCHANGED <<inputVars, nextRelease, logger, pc, outcome, thrown, localVars,
                 remoteVars, other, calls, replies, gitVars>>

IdNext == resolveIdentities

IdSpec == IdInit /\ [][IdNext]_vars

\* ------------------------------------------------------------------------
\* parseRepositoryUrl on its own: locators put together from an optional
\* scheme, optional user information, an optional host, a separator, a path
\* of up to MaxPathLen tokens and an optional ".git"
\* ------------------------------------------------------------------------
UrlPrefixes == {<<>>, <<"https", ":", "/", "/">>, <<"ssh", ":", "/", "/">>}
UrlUsers == {<<>>, <<"git", "@">>, <<"x-access-token", ":", "ghs_123456", "@">>}
UrlHosts == {<<>>, <<"github.com">>, <<"github.example.com">>}
UrlSeparators == {<<>>, <<":">>, <<"/">>}
UrlPaths == SeqsUpTo({"/", "owner", "repo"}, MaxPathLen)
UrlSuffixes == {<<>>, <<".git">>}
RepositoryUrls ==
  {prefix \o user \o host \o sep \o path \o suffix :
     prefix \in UrlPrefixes, user \in UrlUsers, host \in UrlHosts,
     sep \in UrlSeparators, path \in UrlPaths, suffix \in UrlSuffixes}

UrlInputsInit ==
  /\ pluginConfig = [files |-> <<"dist/**">>, githubToken |-> <<>>,
                     commitMessage |-> <<>>,
                     authorName |-> <<>>, authorEmail |-> <<>>,
                     committerName |-> <<>>, committerEmail |-> <<>>,
                     dryRun |-> FALSE]
  /\ env = [GH_TOKEN |-> <<"tokA">>, GITHUB_TOKEN |-> <<>>,
            GITHUB_REF |-> <<"refs/heads/", "main">>, GIT_BRANCH |-> <<>>,
            BRANCH_NAME |-> <<>>,
            GIT_AUTHOR_NAME |-> <<>>, GIT_AUTHOR_EMAIL |-> <<>>,
            GIT_COMMITTER_NAME |-> <<>>, GIT_COMMITTER_EMAIL |-> <<>>]
  /\ \E u \in RepositoryUrls : options = [repositoryUrl |-> u, branches |-> <<>>]
  /\ fsFiles = <<>>
  /\ nextRelease = NoRelease
  /\ context0 = [env |-> env, options |-> options, nextRelease |-> nextRelease]

UrlInit == UrlInputsInit /\ RestInit /\ unit = NoUnit

parseUrl ==
  /\ unit = NoUnit
  /\ unit' = [fn |-> "parseRepositoryUrl",
              out |-> parseRepositoryUrl(options.repositoryUrl)]
  /\ UNCHANGED <<inputVars, nextRelease, logger, pc, outcome, thrown, localVars,
                 remoteVars, other, calls, replies, gitVars>>

UrlNext == parseUrl

UrlSpec == UrlInit /\ [][UrlNext]_vars

\* ------------------------------------------------------------------------
\* getRepoInfo on its own: every combination of the three branch variables
\* of the environment and of the configured branch list
\* ------------------------------------------------------------------------
GitHubRefs == {<<>>, <<"refs/heads/">>, <<"refs/heads/", "main">>, <<"refs/pull/1/merge">>}
GitBranches == {<<>>, <<"origin/", "develop">>, <<"develop">>, <<"feature/", "origin/", "fix">>}
BranchNames == {<<>>, <<"feature-branch">>}
BranchLists ==
  { <<>>,
    <<[isString |-> TRUE, str |-> <<"next">>, name |-> <<>>]>>,
    <<[isString |-> FALSE, str |-> <<>>, name |-> <<"release">>]>>,
    <<[isString |-> FALSE, str |-> <<>>, name |-> <<>>],
      [isString |-> TRUE, str |-> <<"next">>, name |-> <<>>]>> }
BranchUrls == {<<>>, <<"owner", "/", "repo">>}

BranchInputsInit ==
  /\ pluginConfig = [files |-> <<"dist/**">>, githubToken |-> <<>>,
                     commitMessage |-> <<>>,
                     authorName |-> <<>>, authorEmail |-> <<>>,
                     committerName |-> <<>>, committerEmail |-> <<>>,
                     dryRun |-> FALSE]
  /\ \E ref \in GitHubRefs, gb \in GitBranches, bn \in BranchNames :
       env = [GH_TOKEN |-> <<"tokA">>, GITHUB_TOKEN |-> <<>>,
              GITHUB_REF |-> ref, GIT_BRANCH |-> gb, BRANCH_NAME |-> bn,
              GIT_AUTHOR_NAME |-> <<>>, GIT_AUTHOR_EMAIL |-> <<>>,
              GIT_COMMITTER_NAME |-> <<>>, GIT_COMMITTER_EMAIL |-> <<>>]
  /\ \E u \in BranchUrls, bs \in BranchLists :
       options = [repositoryUrl |-> u, branches |-> bs]
  /\ fsFiles = <<>>
  /\ nextRelease = NoRelease
  /\ context0 = [env |-> env, options |-> options, nextRelease |-> nextRelease]

BranchInit == BranchInputsInit /\ RestInit /\ unit = NoUnit

resolveRepoInfo ==
  /\ unit = NoUnit
  /\ unit' = [fn |-> "getRepoInfo",
              out |-> getRepoInfo([env |-> env, options |-> options])]
  /\ UNCHANGED <<inputVars, nextRelease, logger, pc, outcome, thrown, localVars,
                 remoteVars, other, calls, replies, gitVars>>

BranchNext == resolveRepoInfo

BranchSpec == BranchInit /\ [][BranchNext]_vars

\* ------------------------------------------------------------------------
\* getAuthToken on its own: every combination of the two token variables
\* and the configured token
\* ------------------------------------------------------------------------
TokenValues == {<<>>, <<"gh-token">>, <<"github-token">>, <<"config-token">>}

TokenInputsInit ==
  /\ \E c \in TokenValues :
       pluginConfig = [files |-> <<"dist/**">>, githubToken |-> c,
                       commitMessage |-> <<>>,
                       authorName |-> <<>>, authorEmail |-> <<>>,
                       committerName |-> <<>>, committerEmail |-> <<>>,
                       dryRun |-> FALSE]
  /\ \E a \in TokenValues, b \in TokenValues :
       env = [GH_TOKEN |-> a, GITHUB_TOKEN |-> b,
              GITHUB_REF |-> <<"refs/heads/", "main">>, GIT_BRANCH |-> <<>>,
              BRANCH_NAME |-> <<>>,
              GIT_AUTHOR_NAME |-> <<>>, GIT_AUTHOR_EMAIL |-> <<>>,
              GIT_COMMITTER_NAME |-> <<>>, GIT_COMMITTER_EMAIL |-> <<>>]
  /\ options = [repositoryUrl |-> <<"owner", "/", "repo">>, branches |-> <<>>]
  /\ fsFiles = <<>>
  /\ nextRelease = NoRelease
  /\ context0 = [env |-> env, options |-> options, nextRelease |-> nextRelease]

TokenInit == TokenInputsInit /\ RestInit /\ unit = NoUnit

resolveToken ==
  /\ unit = NoUnit
  /\ unit' = [fn |-> "getAuthToken",
              out |-> getAuthToken(env, pluginConfig.githubToken)]
  /\ UNCHANGED <<inputVars, nextRelease, logger, pc, outcome, thrown, localVars,
                 remoteVars, other, calls, replies, gitVars>>

TokenNext == resolveToken

TokenSpec == TokenInit /\ [][TokenNext]_vars

\* ------------------------------------------------------------------------
\* Properties
\* ------------------------------------------------------------------------
Count(op) == Cardinality({k \in 1..Len(calls) : calls[k].op = op})
LastCall == calls[Len(calls)]
BlobCalls == SelectSeq(calls, LAMBDA c : c.op = "createBlob")

\* C1: whenever the tree id returned by createTree equals the base tree id,
\* the run has ended successfully as "no change", with at least one file
\* resolved and with no createCommit and no updateRef request sent.
C1_IdenticalTreeSkipsCommit ==
  (tree /= NoTree /\ tree = baseTreeSha) =>
    /\ pc = "done" /\ outcome = "skipped-no-change" /\ thrown = NoError
    /\ Len(fileBlobs) >= 1
    /\ Count("createTree") = 1
    /\ Count("createCommit") = 0 /\ Count("updateRef") = 0

C1_Witness ==
  outcome = "skipped-no-change" /\ Len(fileBlobs) = 2 /\ tree = baseTreeSha

\* C2: when the resolver delivers no file, the run sends no remote request
\* and runs no git command at any time, never gets past file resolution, and
\* ends as "skipped-empty" without an error unless an error was raised
\* before the resolver returned.
C2_EmptyFileSetNoCalls ==
  fsFiles = <<>> =>
    /\ calls = <<>> /\ execa = <<>>
    /\ pc \in {"start", "resolveFiles", "done"}
    /\ pc = "done" =>
         \/ outcome = "skipped-empty" /\ thrown = NoError
         \/ outcome = "error"
            /\ thrown.code \in {"EGHNOAUTH", "ENOREPO", "ENOBRANCH", "EXTERNAL"}

C2_Witness ==
  outcome = "skipped-empty" /\ fsFiles = <<>> /\ thrown = NoError

\* C3: in dry-run mode no remote request is sent, no git command is run and
\* nextRelease stays as passed, whatever the number of files; a run that
\* gets past reading the files ends as "skipped-dry-run" having logged the
\* path and the encoding of every file.
C3_DryRunNoSideEffects ==
  pluginConfig.dryRun =>
    /\ calls = <<>> /\ execa = <<>>
    /\ nextRelease = context0.nextRelease
    /\ localHead = "c2" /\ fetchHead = ""
    /\ pc \in {"start", "resolveFiles", "readFiles", "done"}
    /\ (pc = "done" /\ thrown = NoError /\ fsFiles /= <<>>) =>
         /\ outcome = "skipped-dry-run"
         /\ \A i \in 1..Len(fsFiles) :
              \E k \in 1..Len(logger) :
                /\ logger[k].kind = "[DRY RUN] file"
                /\ logger[k].data = [path |-> fsFiles[i].path,
                                     encoding |-> fsFiles[i].encoding]

C3_Witness ==
  outcome = "skipped-dry-run" /\ Len(fsFiles) = 2 /\ Len(logger) >= 4

\* C4: once updateRef has succeeded in a run, exactly one createBlob per
\* file was sent (file i's content and encoding in request i), and exactly
\* one createTree, one createCommit and one updateRef, the last carrying the
\* id of the commit createCommit returned; a committed run has written that
\* id to nextRelease.gitHead.
C4_CommittedRun ==
  (pc \in {"fetch", "reset"} \/ outcome = "committed") =>
    /\ Len(fsFiles) >= 1
    /\ Len(BlobCalls) = Len(fsFiles)
    /\ \A i \in 1..Len(fsFiles) :
         /\ BlobCalls[i].params.content = fsFiles[i].content
         /\ BlobCalls[i].params.encoding = fsFiles[i].encoding
    /\ Count("createTree") = 1 /\ Count("createCommit") = 1
    /\ Count("updateRef") = 1
    /\ LastCall.op = "updateRef" /\ LastCall.params.sha = commit
    /\ commit \in DOMAIN commits /\ commit \notin DOMAIN InitialCommits
    /\ commits[commit].tree = tree /\ tree /= baseTreeSha
    /\ (outcome = "committed" /\ context0.nextRelease.present) =>
         nextRelease.gitHead = <<commit>>

C4_Witness ==
  /\ outcome = "committed" /\ Len(fsFiles) = 2
  /\ context0.nextRelease.present /\ nextRelease.gitHead = <<commit>>

\* C5: every createCommit request names exactly one parent, the commit id
\* read by getRef in the same run (the initial head when nobody else wrote);
\* the commit stored has that single parent.
C5_SingleParent ==
  \A k \in 1..Len(calls) :
    calls[k].op = "createCommit" =>
      /\ Len(calls[k].params.parents) = 1
      /\ calls[k].params.parents = <<currentCommitSha>>
      /\ calls[1].op = "getRef" /\ replies[1] = "ok"
      /\ other = 0 => calls[k].params.parents = <<"c2">>
      /\ \E j \in 1..Len(logger) :
           logger[j].kind = "Current commit" /\ logger[j].data = calls[k].params.parents[1]
      /\ (replies[k] = "ok") => commits[commit].parents = <<currentCommitSha>>

C5_Witness ==
  /\ Count("createCommit") = 1 /\ commit /= ""
  /\ other > 0 /\ commits[commit].parents /= <<"c2">>

\* C6: every updateRef request has force = false, and a step in which this
\* system moves the branch moves it to a descendant of the value the branch
\* had at that moment, whatever another writer did before.
C6_FastForwardOnly ==
  [][(calls' /= calls /\ calls'[Len(calls')].op = "updateRef") =>
       /\ calls'[Len(calls')].params.force = FALSE
       /\ branchRef' /= branchRef => IsAncestor(commits', branchRef, branchRef')]_vars

C6_Witness ==
  pc = "fetch" /\ other > 0 /\ branchRef = commit /\ currentCommitSha /= "c2"

\* C7: when the updateRef request fails, the run is over with the EGHAPI
\* error raised, the commit created in the run exists and is not reachable
\* from the branch, the failed updateRef is the last remote request, no git
\* command was run and nextRelease is as passed.
C7_UpdateRefFailure ==
  (\E k \in 1..Len(calls) : calls[k].op = "updateRef" /\ replies[k] = "failed") =>
    /\ pc = "done" /\ outcome = "error" /\ thrown.code = "EGHAPI"
    /\ thrown.message[1] = "Failed to update ref heads/"
    /\ commit \in DOMAIN commits
    /\ ~IsAncestor(commits, commit, branchRef)
    /\ LastCall.op = "updateRef" /\ Count("updateRef") = 1
    /\ execa = <<>> /\ localHead = "c2"
    /\ nextRelease = context0.nextRelease

C7_Witness ==
  /\ Len(calls) > 0 /\ LastCall.op = "updateRef" /\ replies[Len(calls)] = "failed"
  /\ thrown.details = <<"Update is not a fast forward">>

\* C8: when git fetch or git reset fails after a successful updateRef, the
\* error raised is the command's error, its message is the last thing
\* passed to logger.error, the successful updateRef is the last remote
\* request (so the branch is still at the new commit unless another writer
\* moved it), and nextRelease is as passed.
C8_LocalSyncFailure ==
  (\E k \in 1..Len(execa) : execa[k].failed) =>
    /\ pc = "done" /\ outcome = "error" /\ thrown.code = "EXECA"
    /\ execa[Len(execa)].failed
    /\ thrown.message = <<"Command failed: ">> \o execa[Len(execa)].command
    /\ logger[Len(logger)].level = "error"
    /\ logger[Len(logger)].data = thrown.message
    /\ LastCall.op = "updateRef" /\ replies[Len(calls)] = "ok"
    /\ LastCall.params.sha = commit
    /\ (other = 0 => branchRef = commit)
    /\ nextRelease = context0.nextRelease

C8_Witness ==
  Len(execa) = 2 /\ execa[2].failed /\ ~execa[1].failed /\ branchRef = commit

\* C9: env and options are never changed; nextRelease is as passed in every
\* state except the committed outcome, where it differs from the value
\* passed exactly by gitHead holding the new commit id, and only if it was
\* present; the committed outcome has a successful updateRef, fetch and
\* reset behind it.
C9_OnlyGitHeadWritten ==
  /\ env = context0.env /\ options = context0.options
  /\ outcome /= "committed" => nextRelease = context0.nextRelease
  /\ outcome = "committed" =>
       /\ nextRelease = IF context0.nextRelease.present
                        THEN [context0.nextRelease EXCEPT !.gitHead = <<commit>>]
                        ELSE context0.nextRelease
       /\ LastCall.op = "updateRef" /\ replies[Len(calls)] = "ok"
       /\ Len(execa) = 2 /\ ~execa[1].failed /\ ~execa[2].failed

C9_Witness ==
  outcome = "committed" /\ nextRelease /= context0.nextRelease

C9_WitnessAbsent ==
  outcome = "committed" /\ ~context0.nextRelease.present

\* the message in which every placeholder of the template stands for the
\* corresponding release value, taken literally
literalSubstitute(template, release) ==
  Flatten([i \in 1..Len(template) |->
             CASE template[i] = PVersion -> release.version
               [] template[i] = PGitTag -> release.gitTag
               [] template[i] = PGitHead -> release.gitHead
               [] template[i] = PNotes -> release.notes
               [] OTHER -> <<template[i]>>])

\* C10: with release metadata present, the composed message is the template
\* with every placeholder replaced by the literal metadata value and all
\* other text unchanged.
C10_LiteralSubstitution ==
  (unit.fn = "composeCommitMessage" /\ nextRelease.present) =>
    unit.out = literalSubstitute(Or(pluginConfig.commitMessage, DefaultCommitMessage),
                                 nextRelease)

\* C11: the message is built from the custom template when one is
\* configured (a custom template without placeholders is the message), and
\* from the built-in default only when none is configured: with no custom
\* template and release version V the message is "chore(release): V [skip ci]".
C11_TemplateChoice ==
  unit.fn = "composeCommitMessage" =>
    /\ (Truthy(pluginConfig.commitMessage)
          /\ \A i \in 1..Len(pluginConfig.commitMessage) :
               pluginConfig.commitMessage[i] \notin Placeholders)
       => unit.out = pluginConfig.commitMessage
    /\ (~Truthy(pluginConfig.commitMessage) /\ nextRelease.present)
       => unit.out = <<"chore(release): ">> \o nextRelease.version \o <<" [skip ci]">>

\* C12: when the caller passed no release metadata, the message of the
\* createCommit request is the chosen template (the custom one if
\* configured, else the built-in default) unchanged, placeholders included.
C12_NoReleaseKeepsTemplate ==
  \A k \in 1..Len(calls) :
    (calls[k].op = "createCommit" /\ ~context0.nextRelease.present) =>
      calls[k].params.message =
        IF pluginConfig.commitMessage /= <<>> THEN pluginConfig.commitMessage
        ELSE <<"chore(release): ", "${nextRelease.version}", " [skip ci]">>

C12_Witness ==
  /\ Len(calls) > 0 /\ LastCall.op = "createCommit"
  /\ ~context0.nextRelease.present
  /\ \E i \in 1..Len(pluginConfig.commitMessage) :
       pluginConfig.commitMessage[i] \in Placeholders
  /\ LastCall.params.message = pluginConfig.commitMessage

C12_WitnessDefault ==
  /\ Len(calls) > 0 /\ LastCall.op = "createCommit"
  /\ ~context0.nextRelease.present /\ pluginConfig.commitMessage = <<>>

Roles == {"author", "committer"}
configuredName(role) ==
  IF role = "author" THEN pluginConfig.authorName ELSE pluginConfig.committerName
configuredEmail(role) ==
  IF role = "author" THEN pluginConfig.authorEmail ELSE pluginConfig.committerEmail
environmentName(role) ==
  IF role = "author" THEN env.GIT_AUTHOR_NAME ELSE env.GIT_COMMITTER_NAME
environmentEmail(role) ==
  IF role = "author" THEN env.GIT_AUTHOR_EMAIL ELSE env.GIT_COMMITTER_EMAIL

\* C13: in the createCommit request each of author and committer is present
\* exactly when that role's resolved identity is, then with exactly the
\* resolved name and email; an absent role is no field of the request at
\* all, whatever the other role is.
C13_IdentityPassThrough ==
  unit.fn = "getGitIdentity" =>
    \A role \in Roles :
      /\ (role \in DOMAIN unit.request.params) <=> unit[role].present
      /\ unit[role].present =>
           unit.request.params[role] = [name |-> unit[role].name, email |-> unit[role].email]

C13_Witness ==
  /\ unit.fn = "getGitIdentity"
  /\ unit.author.present /\ ~unit.committer.present
  /\ "author" \in DOMAIN unit.request.params
  /\ "committer" \notin DOMAIN unit.request.params

C13_WitnessCommitterOnly ==
  /\ unit.fn = "getGitIdentity"
  /\ ~unit.author.present /\ unit.committer.present
  /\ DOMAIN unit.request.params
       = {"owner", "repo", "message", "tree", "parents", "committer"}

\* C14: for each role, when name and email both come from the configuration
\* or both from the environment, the result is absent if the pair is name
\* "semantic-release-bot" with email "semantic-release-bot@martynus.net",
\* and is exactly that pair if both are non-empty and the pair is any other
\* one, the bot name with another email included.
C14_BotIdentitySuppressed ==
  unit.fn = "getGitIdentity" =>
    \A role \in Roles :
      \A pair \in
          (IF configuredName(role) /= <<>> /\ configuredEmail(role) /= <<>>
           THEN {<<configuredName(role), configuredEmail(role)>>} ELSE {})
          \cup
          (IF configuredName(role) = <<>> /\ configuredEmail(role) = <<>>
           THEN {<<environmentName(role), environmentEmail(role)>>} ELSE {}) :
        /\ pair = <<(<<"semantic-release-bot">>), (<<"semantic-release-bot@martynus.net">>)>>
             => ~unit[role].present
        /\ (pair[1] /= <<>> /\ pair[2] /= <<>>
              /\ pair /= <<(<<"semantic-release-bot">>), (<<"semantic-release-bot@martynus.net">>)>>)
             => unit[role] = [present |-> TRUE, name |-> pair[1], email |-> pair[2]]

C14_Witness ==
  /\ unit.fn = "getGitIdentity"
  /\ pluginConfig.authorName = BotName /\ pluginConfig.authorEmail = BotEmail
  /\ ~unit.author.present
  /\ pluginConfig.committerName = <<>> /\ pluginConfig.committerEmail = <<>>
  /\ env.GIT_COMMITTER_NAME = BotName /\ env.GIT_COMMITTER_EMAIL = <<"env@example.com">>
  /\ unit.committer = [present |-> TRUE, name |-> BotName, email |-> <<"env@example.com">>]

\* C15 as stated: the identity returned for a role is the configured pair
\* when name and email are both configured, otherwise the environment pair;
\* it is never a name of one source with an email of the other, and it is
\* absent when the name or the email is missing.
C15_PairFallback ==
  unit.fn = "getGitIdentity" =>
    \A role \in Roles :
      /\ unit[role].present =>
           \/ /\ unit[role].name = configuredName(role)
              /\ unit[role].email = configuredEmail(role)
           \/ /\ unit[role].name = environmentName(role)
              /\ unit[role].email = environmentEmail(role)
      /\ (configuredName(role) /= <<>> /\ configuredEmail(role) /= <<>>
            /\ unit[role].present) =>
           /\ unit[role].name = configuredName(role)
           /\ unit[role].email = configuredEmail(role)

\* C15: for each role the name and the email are resolved separately, each
\* being the configured value when that is non-empty and the role's
\* environment variable otherwise; a returned identity carries exactly this
\* name and this email (so a configured name can come with an environment
\* email, and the reverse), and none is returned when either is empty.
C15_PerFieldFallback ==
  unit.fn = "getGitIdentity" =>
    \A role \in Roles :
      /\ unit[role].present =>
           /\ unit[role].name = IF configuredName(role) /= <<>>
                                THEN configuredName(role) ELSE environmentName(role)
           /\ unit[role].email = IF configuredEmail(role) /= <<>>
                                 THEN configuredEmail(role) ELSE environmentEmail(role)
      /\ ((configuredName(role) = <<>> /\ environmentName(role) = <<>>)
            \/ (configuredEmail(role) = <<>> /\ environmentEmail(role) = <<>>))
           => unit[role] = NoIdentity
      /\ (configuredName(role) /= <<>> /\ configuredEmail(role) = <<>>
            /\ environmentEmail(role) /= <<>> /\ configuredName(role) /= BotName)
           => unit[role].present

C15_Witness ==
  /\ unit.fn = "getGitIdentity"
  /\ pluginConfig.authorName = <<"Config Name">> /\ pluginConfig.authorEmail = <<>>
  /\ env.GIT_AUTHOR_NAME = <<"Env Name">> /\ env.GIT_AUTHOR_EMAIL = <<"env@example.com">>
  /\ unit.author = [present |-> TRUE, name |-> <<"Config Name">>,
                    email |-> <<"env@example.com">>]

\* The three grammars of a repository locator, read off the locator itself
Punctuation == {":", "/", "@", ".git"}
isName(seg) == seg /= <<>> /\ \A i \in 1..Len(seg) : seg[i] \notin Punctuation
NoMatch == [matched |-> FALSE, host |-> <<>>, owner |-> <<>>, repo |-> <<>>]

\* owner/repo
ownerRepo(s, parts, host) ==
  IF host /= <<>> /\ Len(parts) = 2 /\ isName(parts[1]) /\ isName(parts[2])
  THEN [matched |-> TRUE, host |-> host, owner |-> parts[1], repo |-> parts[2]]
  ELSE NoMatch

\* [user@]host, where the user part may hold a ":" only in a standard URL
hostIn(parts, credentials) ==
  IF Len(parts) = 1 /\ isName(parts[1]) THEN parts[1]
  ELSE IF Len(parts) = 2 /\ isName(parts[2]) /\ parts[1] /= <<>>
          /\ (\A i \in 1..Len(parts[1]) : parts[1][i] \notin {"/", ".git"})
          /\ (credentials \/ isName(parts[1]))
       THEN parts[2]
       ELSE <<>>

\* scheme://[credentials@]host/owner/repo
standardForm(s, colon, slash) ==
  IF colon >= 2 /\ isName(SubSeq(s, 1, colon - 1))
     /\ Len(s) >= colon + 2 /\ s[colon + 1] = "/" /\ s[colon + 2] = "/"
     /\ slash > colon + 3
  THEN ownerRepo(s, split(SubSeq(s, slash + 1, Len(s)), "/"),
                 hostIn(split(SubSeq(s, colon + 3, slash - 1), "@"), TRUE))
  ELSE NoMatch

\* index of the first "/" after position from, 0 when there is none
SlashAfter(s, from) ==
  IF \E i \in (from + 1)..Len(s) : s[i] = "/"
  THEN CHOOSE i \in (from + 1)..Len(s) :
         s[i] = "/" /\ \A j \in (from + 1)..(i - 1) : s[j] /= "/"
  ELSE 0

\* [user@]host:owner/repo
scpForm(s, colon) ==
  IF colon >= 2
  THEN ownerRepo(s, split(SubSeq(s, colon + 1, Len(s)), "/"),
                 hostIn(split(SubSeq(s, 1, colon - 1), "@"), FALSE))
  ELSE NoMatch

firstMatch(a, b, c) == IF a.matched THEN a ELSE IF b.matched THEN b ELSE c

grammarsOf(s) ==
  firstMatch(standardForm(s, FirstIndex(s, ":"), SlashAfter(s, FirstIndex(s, ":") + 2)),
             scpForm(s, FirstIndex(s, ":")),
             ownerRepo(s, split(s, "/"), <<"github.com">>))

withoutDotGit(url) ==
  IF url /= <<>> /\ url[Len(url)] = ".git" THEN SubSeq(url, 1, Len(url) - 1) ELSE url

\* C16: with a trailing ".git" stripped, a locator of the form
\* scheme://[credentials@]host/owner/repo or [user@]host:owner/repo is
\* parsed to exactly its host, owner and repo (credentials and user
\* ignored), and a bare owner/repo to host github.com with its owner and
\* repo; the only error raised is ENOREPO, and only for a locator of none
\* of the three forms.
C16_ThreeGrammars ==
  unit.fn = "parseRepositoryUrl" =>
    /\ grammarsOf(withoutDotGit(options.repositoryUrl)).matched =>
         /\ unit.out.ok
         /\ unit.out.value =
              [host |-> grammarsOf(withoutDotGit(options.repositoryUrl)).host,
               owner |-> grammarsOf(withoutDotGit(options.repositoryUrl)).owner,
               repo |-> grammarsOf(withoutDotGit(options.repositoryUrl)).repo]
    /\ ~unit.out.ok =>
         /\ unit.out.error.code = "ENOREPO"
         /\ ~grammarsOf(withoutDotGit(options.repositoryUrl)).matched

\* s without the leading token prefix, s itself when it does not start with it
stripPrefix(s, prefix) ==
  IF s /= <<>> /\ s[1] = prefix THEN SubSeq(s, 2, Len(s)) ELSE s

firstEntry(branches) ==
  IF branches = <<>> THEN <<>>
  ELSE IF branches[1].isString THEN branches[1].str ELSE branches[1].name

firstNonEmpty(candidates) ==
  IF \E i \in 1..Len(candidates) : candidates[i] /= <<>>
  THEN candidates[CHOOSE i \in 1..Len(candidates) :
                    candidates[i] /= <<>> /\ \A j \in 1..(i - 1) : candidates[j] = <<>>]
  ELSE <<>>

branchByPrecedence ==
  firstNonEmpty(<<stripPrefix(env.GITHUB_REF, "refs/heads/"),
                  stripPrefix(env.GIT_BRANCH, "origin/"),
                  env.BRANCH_NAME,
                  firstEntry(options.branches)>>)

\* C17: when the repository URL is usable, the branch of the result is the
\* first non-empty of: GITHUB_REF without its prefix "refs/heads/",
\* GIT_BRANCH without its prefix "origin/", BRANCH_NAME, the first entry of
\* the configured branch list; when all four are empty the ENOBRANCH error
\* is raised and no branch is made up.
C17_BranchPrecedence ==
  (unit.fn = "getRepoInfo" /\ options.repositoryUrl /= <<>>) =>
    IF branchByPrecedence /= <<>>
    THEN unit.out.ok /\ unit.out.value.branch = branchByPrecedence
    ELSE ~unit.out.ok /\ unit.out.error.code = "ENOBRANCH"

\* C18: the token returned is GH_TOKEN when that is non-empty, else
\* GITHUB_TOKEN when that is non-empty, else the configured githubToken
\* when that is non-empty; the EGHNOAUTH error is raised exactly when all
\* three are empty.
C18_TokenPriority ==
  unit.fn = "getAuthToken" =>
    IF env.GH_TOKEN = <<>> /\ env.GITHUB_TOKEN = <<>> /\ pluginConfig.githubToken = <<>>
    THEN ~unit.out.ok /\ unit.out.error.code = "EGHNOAUTH"
    ELSE /\ unit.out.ok
         /\ unit.out.value =
              firstNonEmpty(<<env.GH_TOKEN, env.GITHUB_TOKEN, pluginConfig.githubToken>>)

C18_Witness ==
  /\ unit.fn = "getAuthToken"
  /\ env.GH_TOKEN = <<>> /\ env.GITHUB_TOKEN = <<"github-token">>
  /\ pluginConfig.githubToken = <<"config-token">>
  /\ unit.out.ok /\ unit.out.value = <<"github-token">>

C18_WitnessNone ==
  unit.fn = "getAuthToken" /\ ~unit.out.ok /\ unit.out.error.code = "EGHNOAUTH"

\* C19: once the client is constructed its base URL is https://<host>/api/v3
\* when the resolved host is not github.com and none when it is, and every
\* request of the run was sent to that base.
C19_OneApiBase ==
  /\ pc /= "start" /\ github.auth /= <<>> =>
       github.baseUrl = IF repoInfo.host = <<"github.com">> THEN <<>>
                        ELSE <<"https://">> \o repoInfo.host \o <<"/api/v3">>
  /\ \A k \in 1..Len(calls) :
       /\ calls[k].baseUrl = github.baseUrl
       /\ calls[k].baseUrl = <<>> <=> repoInfo.host = <<"github.com">>

C19_Witness ==
  /\ outcome = "committed" /\ repoInfo.host = <<"ghe.corp">>
  /\ Count("createBlob") = 2
  /\ \A k \in 1..Len(calls) : calls[k].baseUrl = <<"https://", "ghe.corp", "/api/v3">>

C19_WitnessPublic ==
  /\ outcome = "committed" /\ repoInfo.host = <<"github.com">>
  /\ \A k \in 1..Len(calls) : calls[k].baseUrl = <<>>

\* what the error of each client method says
failureText(op) ==
  CASE op = "getRef" -> "Failed to get ref for branch"
    [] op = "createBlob" -> "Failed to create blob"
    [] op = "createTree" -> "Failed to create tree"
    [] op = "getCommit" -> "Failed to get commit"
    [] op = "createCommit" -> "Failed to create commit"
    [] op = "updateRef" -> "Failed to update ref heads/"

\* C20: when a request of any of the six operations has failed, the run has
\* ended with an EGHAPI error whose message names a failed operation (the
\* failed one itself unless it is a blob upload that failed after the run
\* had ended) and whose details are the underlying cause; no operation is
\* sent twice: at most one request each of getRef, getCommit, createTree,
\* createCommit and updateRef, one createBlob per file, and after a failed
\* request nothing but blob uploads started alongside it.
C20_UniformApiErrors ==
  /\ \A k \in 1..Len(calls) : replies[k] = "failed" =>
       /\ pc = "done" /\ outcome = "error" /\ thrown.code = "EGHAPI"
       /\ thrown.details /= <<>>
       /\ \E j \in 1..Len(calls) :
            replies[j] = "failed" /\ thrown.message[1] = failureText(calls[j].op)
       /\ calls[k].op /= "createBlob" => thrown.message[1] = failureText(calls[k].op)
       /\ \A j \in (k + 1)..Len(calls) : calls[j].op = "createBlob" /\ calls[k].op = "createBlob"
  /\ \A op \in {"getRef", "getCommit", "createTree", "createCommit", "updateRef"} :
       Count(op) <= 1
  /\ Count("createBlob") \in {0, Len(fileBlobs)}

C20_Witness ==
  /\ Len(calls) > 0 /\ LastCall.op = "createCommit" /\ replies[Len(calls)] = "failed"
  /\ thrown = [code |-> "EGHAPI", message |-> <<"Failed to create commit">>,
               details |-> <<"HTTP error">>]

C20_WitnessBlob ==
  /\ Count("createBlob") = 2 /\ thrown.message = <<"Failed to create blob">>
  /\ \A k \in 1..Len(calls) : calls[k].op = "createBlob" => replies[k] = "failed"

\* C21: a failed remote call, file operation or git command has ended the
\* run in the error state with an error raised; nothing was sent or run
\* after it (blob uploads started together with a failed one excepted) and
\* nothing twice; a run that ended without an error and without the
\* committed outcome ended by the empty file set, by dry run or by the
\* identical tree.
C21_AllErrorsFatal ==
  /\ ((\E k \in 1..Len(calls) : replies[k] = "failed")
        \/ (\E k \in 1..Len(execa) : execa[k].failed)
        \/ thrown /= NoError)
       => pc = "done" /\ outcome = "error" /\ thrown /= NoError
  /\ outcome = "error" => pc = "done" /\ thrown /= NoError
  /\ \A k \in 1..Len(calls) : replies[k] = "failed" =>
       /\ execa = <<>>
       /\ \A j \in (k + 1)..Len(calls) :
            calls[j].op = "createBlob" /\ calls[k].op = "createBlob"
  /\ \A k \in 1..Len(execa) : execa[k].failed => k = Len(execa)
  /\ thrown.code = "EXTERNAL" => calls = <<>> /\ execa = <<>>
  /\ \A op \in {"getRef", "getCommit", "createTree", "createCommit", "updateRef"} :
       Count(op) <= 1
  /\ Count("createBlob") <= Len(fsFiles) /\ Len(execa) <= 2
  /\ (pc = "done" /\ outcome \notin {"error", "committed"}) =>
       \/ outcome = "skipped-empty" /\ fsFiles = <<>>
       \/ outcome = "skipped-dry-run" /\ pluginConfig.dryRun
       \/ /\ outcome = "skipped-no-change"
          /\ LastCall.op = "createTree" /\ replies[Len(calls)] = "ok"
          /\ tree = baseTreeSha

C21_Witness ==
  /\ Len(calls) > 0 /\ LastCall.op = "createTree" /\ replies[Len(calls)] = "failed"
  /\ pc = "done" /\ outcome = "error"

C21_WitnessFileRead ==
  thrown.code = "EXTERNAL" /\ thrown.message = <<"readFilesAsBlobs">> /\ outcome = "error"

C21_WitnessGit ==
  Len(execa) = 1 /\ execa[1].failed /\ outcome = "error"

\* C22 as stated: createTree is requested only when every blob upload has
\* succeeded; when an upload has failed the run does not end while another
\* upload is still in flight, and no createTree, createCommit or updateRef
\* is requested.
C22_WaitsForAllBlobs ==
  /\ Count("createTree") > 0 =>
       \A k \in 1..Len(calls) : calls[k].op = "createBlob" => replies[k] = "ok"
  /\ (\E k \in 1..Len(calls) : calls[k].op = "createBlob" /\ replies[k] = "failed") =>
       /\ Count("createTree") = 0 /\ Count("createCommit") = 0 /\ Count("updateRef") = 0
       /\ pc = "done" => \A k \in 1..Len(calls) : replies[k] /= "pending"

\* C22: createTree is requested only when every blob upload has succeeded;
\* as soon as one upload has failed the run is over with that error, whether
\* or not other uploads are still in flight (they settle after the run has
\* ended and change nothing in it), and no createTree, createCommit or
\* updateRef is requested.
C22_FirstBlobFailureEndsRun ==
  /\ Count("createTree") > 0 =>
       /\ Count("createBlob") = Len(fsFiles)
       /\ \A k \in 1..Len(calls) : calls[k].op = "createBlob" => replies[k] = "ok"
  /\ (\E k \in 1..Len(calls) : calls[k].op = "createBlob" /\ replies[k] = "failed") =>
       /\ pc = "done" /\ outcome = "error"
       /\ thrown = [code |-> "EGHAPI", message |-> <<"Failed to create blob">>,
                    details |-> <<"HTTP error">>]
       /\ Count("createTree") = 0 /\ Count("createCommit") = 0 /\ Count("updateRef") = 0
       /\ execa = <<>> /\ nextRelease = context0.nextRelease

C22_Witness ==
  /\ pc = "done" /\ outcome = "error"
  /\ \E k \in 1..Len(calls) : calls[k].op = "createBlob" /\ replies[k] = "failed"
  /\ \E k \in 1..Len(calls) : calls[k].op = "createBlob" /\ replies[k] = "pending"

C22_WitnessLate ==
  /\ pc = "done" /\ outcome = "error" /\ Count("createBlob") = 2
  /\ \E k \in 1..Len(calls) : calls[k].op = "createBlob" /\ replies[k] = "failed"
  /\ \E k \in 1..Len(calls) : calls[k].op = "createBlob" /\ replies[k] = "ok"
  /\ blobs /= {"b1", "b2"}

\* C23: the createTree request carries one entry per resolved file, in the
\* files' order; entry i has file i's path and the blob id the host
\* returned for the createBlob request that carried file i's content and
\* encoding, whatever the order in which the uploads completed.
C23_BlobPathPairing ==
  \A k \in 1..Len(calls) : calls[k].op = "createTree" =>
    /\ Len(calls[k].params.tree) = Len(fsFiles)
    /\ Len(BlobCalls) = Len(fsFiles)
    /\ \A i \in 1..Len(fsFiles) :
         /\ calls[k].params.tree[i].path = fsFiles[i].path
         /\ BlobCalls[i].params.content = fsFiles[i].content
         /\ BlobCalls[i].params.encoding = fsFiles[i].encoding
         /\ calls[k].params.tree[i].sha
              = decodeBlob(BlobCalls[i].params.content, BlobCalls[i].params.encoding)
         /\ calls[k].params.tree[i].sha \in blobs

C23_Witness ==
  /\ Count("createTree") = 1 /\ Len(fsFiles) = 2
  /\ fsFiles[1].encoding = "utf-8" /\ fsFiles[2].encoding = "base64"
  /\ blobsWithSha = <<[path |-> "p1", sha |-> "b1"], [path |-> "p2", sha |-> "bin"]>>

C23_WitnessReversed ==
  pc = "awaitBlobs" /\ blobState = <<"inflight", "done">>

\* the remote operations of a complete run, in order
OperationOrder ==
  <<"getRef", "getCommit">> \o [i \in 1..Len(fsFiles) |-> "createBlob"]
  \o <<"createTree", "createCommit", "updateRef">>

\* C24: the requests sent so far are, in order, a beginning of getRef,
\* getCommit, one createBlob per file, createTree, createCommit, updateRef;
\* only createBlob requests are ever outstanding, and no other request is
\* sent while one is; every request before the last has succeeded (blob
\* uploads sent together excepted); git fetch is run only after all of them
\* succeeded, git reset only after a successful fetch, and nextRelease is
\* written only after a successful reset.
C24_FixedCallOrder ==
  /\ Len(calls) <= Len(OperationOrder)
  /\ \A k \in 1..Len(calls) :
       /\ calls[k].op = OperationOrder[k]
       /\ replies[k] /= "ok" =>
            \A j \in (k + 1)..Len(calls) :
              calls[k].op = "createBlob" /\ calls[j].op = "createBlob"
       /\ replies[k] = "pending" => calls[k].op = "createBlob"
  /\ execa /= <<>> =>
       /\ Len(calls) = Len(OperationOrder)
       /\ \A k \in 1..Len(calls) : replies[k] = "ok"
       /\ execa[1].command[2] = "fetch"
  /\ Len(execa) <= 2
  /\ Len(execa) = 2 => ~execa[1].failed /\ execa[2].command[2] = "reset"
  /\ nextRelease /= context0.nextRelease => Len(execa) = 2 /\ ~execa[2].failed

C24_Witness ==
  /\ outcome = "committed" /\ Len(fsFiles) = 2 /\ Len(calls) = 7
  /\ nextRelease /= context0.nextRelease

\* position of the only request of operation op in calls
CallOf(op) == CHOOSE k \in 1..Len(calls) : calls[k].op = op

\* C25: getRef is the first request and is sent once; the id it returns is
\* the branch head at that moment and is kept for the rest of the run; the
\* getCommit request names that id, the createTree request has that
\* commit's tree as base_tree, the createCommit request has the tree id
\* createTree returned, the stored commit has it too, and the run stops as
\* "no change" exactly when these two tree ids are equal.
C25_TreeIdsOfOneRead ==
  /\ [](/\ \A k \in 1..Len(calls) : calls[k].op = "getRef" => k = 1
        /\ Count("getCommit") > 0 =>
             calls[CallOf("getCommit")].params.commit_sha = currentCommitSha
        /\ Count("createTree") > 0 =>
             /\ calls[CallOf("createTree")].params.base_tree = commits[currentCommitSha].tree
             /\ replies[CallOf("createTree")] = "ok" =>
                  /\ tree = layerTree(calls[CallOf("createTree")].params.base_tree,
                                      calls[CallOf("createTree")].params.tree)
                  /\ (outcome = "skipped-no-change")
                       <=> (tree = commits[currentCommitSha].tree)
        /\ Count("createCommit") > 0 =>
             /\ calls[CallOf("createCommit")].params.tree = tree
             /\ tree /= commits[currentCommitSha].tree
             /\ replies[CallOf("createCommit")] = "ok" => commits[commit].tree = tree
        /\ outcome = "skipped-no-change" => Count("createTree") = 1)
  /\ [][/\ (pc = "getRef" /\ pc' = "getCommit") => currentCommitSha' = branchRef
        /\ Count("getRef") > 0 => currentCommitSha' = currentCommitSha]_vars

C25_Witness ==
  /\ outcome = "committed" /\ other > 0 /\ currentCommitSha /= "c2"
  /\ calls[CallOf("createTree")].params.base_tree = OtherTree
  /\ commits[commit].tree = tree

\* C26: when the updateRef request is sent while the branch head is a
\* proper descendant of the commit getRef returned (another writer has
\* advanced the branch), the request fails and the run ends there in the
\* EGHAPI error: the branch is left where the other writer put it, the ref
\* was read once and updated once, no git command is run, and the blobs,
\* tree and commit of this run exist without the branch reaching the
\* commit; once a run has ended in an error the branch and the commits no
\* longer change.
C26_LostRaceLeavesBranch ==
  [][/\ (/\ calls' /= calls /\ calls'[Len(calls')].op = "updateRef"
         /\ branchRef /= currentCommitSha
         /\ IsAncestor(commits, currentCommitSha, branchRef)) =>
          /\ replies'[Len(calls')] = "failed"
          /\ pc' = "done" /\ outcome' = "error" /\ thrown'.code = "EGHAPI"
          /\ thrown'.message[1] = "Failed to update ref heads/"
          /\ branchRef' = branchRef /\ commits' = commits
          /\ Cardinality({k \in 1..Len(calls') : calls'[k].op = "getRef"}) = 1
          /\ Cardinality({k \in 1..Len(calls') : calls'[k].op = "updateRef"}) = 1
          /\ execa' = <<>> /\ localHead' = "c2"
          /\ commit \in DOMAIN commits' /\ commits'[commit].parents = <<currentCommitSha>>
          /\ ~IsAncestor(commits', commit, branchRef')
          /\ tree \in trees'
          /\ \A i \in 1..Len(blobsWithSha) : blobsWithSha[i].sha \in blobs'
     /\ outcome = "error" =>
          /\ branchRef' = branchRef /\ commits' = commits
          /\ trees' = trees /\ calls' = calls /\ outcome' = "error"]_vars

C26_Witness ==
  /\ pc = "done" /\ outcome = "error" /\ other > 0
  /\ Len(calls) > 0 /\ LastCall.op = "updateRef" /\ replies[Len(calls)] = "failed"
  /\ branchRef /= currentCommitSha /\ IsAncestor(commits, currentCommitSha, branchRef)
  /\ commit \in DOMAIN commits /\ ~IsAncestor(commits, commit, branchRef)
  /\ commits[branchRef].message = <<"other">>

\* C27: after a run that ends committed, the HEAD of the local working copy
\* is the commit this run created, which is also the id written to
\* nextRelease.gitHead and the id of the "Local repository updated to" log
\* entry, whatever another writer did between the updateRef and the fetch.
C27_LocalHeadIsNewCommit ==
  outcome = "committed" =>
    /\ localHead = commit
    /\ nextRelease.present => nextRelease.gitHead = <<commit>>
    /\ \E i \in 1..Len(logger) :
         logger[i] = Log("log", "Local repository updated to", localHead)

createdCommit ==
  \E k \in 1..Len(calls) : calls[k].op = "createCommit" /\ replies[k] = "ok"

movedRef ==
  \E k \in 1..Len(calls) : calls[k].op = "updateRef" /\ replies[k] = "ok"

TerminalOutcomes ==
  {"committed", "skipped-empty", "skipped-dry-run", "skipped-no-change", "error"}

\* C28: when no awaited operation stays outstanding for ever, every run of
\* prepare ends; it ends in exactly one of the five outcomes, which never
\* changes afterwards; and a run that created a commit or moved the ref ends
\* committed or in an error thrown after the commit was created (by the ref
\* update or by a git command).
C28_EndsInOneOutcome ==
  /\ <>(pc = "done")
  /\ [](/\ pc = "done" <=> outcome \in TerminalOutcomes
        /\ pc /= "done" <=> outcome = "running"
        /\ (outcome = "error") <=> (thrown /= NoError)
        /\ movedRef => createdCommit
        /\ (pc = "done" /\ createdCommit) =>
             \/ outcome = "committed" /\ movedRef
             \/ /\ outcome = "error"
                /\ \/ LastCall.op = "updateRef" /\ replies[Len(calls)] = "failed"
                      /\ ~movedRef /\ execa = <<>>
                   \/ movedRef /\ execa /= <<>> /\ execa[Len(execa)].failed)
  /\ [][pc = "done" => (pc' = "done" /\ outcome' = outcome /\ thrown' = thrown)]_vars

C28_Witness ==
  /\ pc = "done" /\ outcome = "error" /\ createdCommit /\ movedRef
  /\ execa /= <<>> /\ execa[Len(execa)].failed

C28_WitnessCommitted == pc = "done" /\ outcome = "committed" /\ movedRef

tokenMissing ==
  /\ pluginConfig.githubToken = <<>> /\ env.GH_TOKEN = <<>> /\ env.GITHUB_TOKEN = <<>>

urlUnusable == options.repositoryUrl \in {<<>>, <<"invalid-url">>}

branchUndetectable ==
  /\ env.GITHUB_REF = <<>> /\ env.GIT_BRANCH = <<>> /\ env.BRANCH_NAME = <<>>
  /\ options.branches = <<>>

\* C29: a run with no token, with a missing or unparseable repository URL,
\* or with no detectable branch ends in the error EGHNOAUTH, ENOREPO or
\* ENOBRANCH (in this order of precedence) as soon as it has started,
\* whether or not dry-run is set and whatever the files are: it never
\* reaches file resolution, logs nothing, sends no request and runs no git
\* command.
C29_IdentityBeforeFiles ==
  (pc /= "start" /\ (tokenMissing \/ urlUnusable \/ branchUndetectable)) =>
    /\ pc = "done" /\ outcome = "error"
    /\ thrown.code = IF tokenMissing THEN "EGHNOAUTH"
                     ELSE IF urlUnusable THEN "ENOREPO" ELSE "ENOBRANCH"
    /\ logger = <<>> /\ filePaths = <<>> /\ fileBlobs = <<>>
    /\ calls = <<>> /\ execa = <<>>
    /\ github = [auth |-> <<>>, baseUrl |-> <<>>]

C29_Witness ==
  /\ pc = "done" /\ outcome = "error" /\ thrown.code = "ENOBRANCH"
  /\ pluginConfig.dryRun /\ fsFiles = <<>> /\ calls = <<>>

C29_WitnessNoToken ==
  /\ pc = "done" /\ thrown.code = "EGHNOAUTH" /\ urlUnusable
  /\ pluginConfig.dryRun /\ fsFiles /= <<>>

C29_WitnessNoUrl ==
  /\ pc = "done" /\ thrown.code = "ENOREPO" /\ options.repositoryUrl = <<>>
  /\ branchUndetectable /\ pluginConfig.dryRun

\* the text of a logger entry, as far as it is made of words that come from
\* the inputs or the host (tree ids and counts carry no such words)
textOf(entry) ==
  IF entry.kind \in {"Using custom GitHub API URL", "Resolving file patterns",
                     "Resolved file(s)", "Getting current ref for branch",
                     "Failed to fetch new commit into local repository:"}
  THEN entry.data
  ELSE IF entry.kind = "Preparing to commit files to"
  THEN entry.data.owner \o entry.data.repo \o entry.data.branch
  ELSE IF entry.kind \in {"Author", "Committer"}
  THEN entry.data.name \o entry.data.email
  ELSE IF entry.kind = "Updating ref"
  THEN entry.data.branch \o <<entry.data.sha>>
  ELSE IF entry.kind = "[DRY RUN] file"
  THEN <<entry.data.path>>
  ELSE IF entry.kind \in {"Current commit", "Created commit",
                          "Local repository updated to",
                          "Updated nextRelease.gitHead to"}
  THEN <<entry.data>>
  ELSE <<>>

\* C30: no entry handed to the logger, on any path, carries the
\* authentication token.
C30_TokenNeverLogged ==
  \A k \in 1..Len(logger) :
    \A i \in 1..Len(textOf(logger[k])) :
      \A j \in 1..Len(token) : textOf(logger[k])[i] /= token[j]

====
